---- MODULE Spec2Model ----
(***************************************************************************)
(* Model of the browser-interaction layer of letterboxd-cli:               *)
(*   - the session manager (browser/client.ts, kept in browser/auth.ts),   *)
(*   - the fallback chains built with locator.or(...).first(),             *)
(*   - the authentication flow (browser/auth.ts),                          *)
(*   - the film page actions (browser/pages/film.ts).                      *)
(* Each component has its own specification over the shared variables;     *)
(* the variables of the other components stay at their initial values.     *)
(***************************************************************************)
EXTENDS Integers, Sequences, FiniteSets, TLC

VARIABLES
    \* ---- session manager (module state of client.ts and its callers) ----
    context,      \* the module variable `context`: 0 is null, else a context id
    ctxState,     \* context id -> "unborn" | "live" | "closing" | "closed"
    closeCalls,   \* context id -> number of context.close() calls issued on it
    launches,     \* number of chromium.launchPersistentContext calls issued
    pc,           \* caller -> position of its pending call
    op,           \* caller -> the exported function it is running
    lctx,         \* caller -> the context its call holds (local `ctx`)
    ret,          \* caller -> what its last call returned
    closeRun,     \* closeBrowser calls completed in a row since the last other call
    runCloses,    \* context.close() calls issued by the calls of that run
    \* ---- a fallback chain a.or(b).or(c) resolved on a document ----
    doc,          \* the document: sequence of elements, each the set of the
                  \* chain's strategies (by declared position) that match it
    locPc,        \* "start" | "clicked" | "notFound"
    clicked,      \* index in doc of the element acted on, 0 if none
    \* ---- authentication flow on one page (auth.ts) ----
    aPc,          \* position of the running auth function
    aOp,          \* "ensureAuthenticated" | "login" | "checkAuthStatus"
    aResult,      \* how the last call ended: "void", "true", "false" or an error
    aAt,          \* the statement at which the last call ended
    siteAuth,     \* the site holds an authenticated session for the cookie store
    hasCreds,     \* getCredentials() finds a username and a password
    credsOk,      \* the site accepts those credentials
    pageAt,       \* location the page shows: "blank" | "home" | "signin" | "other"
    signInLink,   \* the loaded page contains a[href="/sign-in/"]
    lastCheck,    \* the last isAuthenticated evaluation
    sawAuth,      \* result of the first status check of the call
    navs,         \* page.goto calls issued by the call
    logins,       \* login() invocations by the call
    submits,      \* clicks on the sign-in submit control by the call
    prev,         \* summary of the previous call
    aCalls,       \* calls started so far
    \* ---- film page actions on that page (pages/film.ts) ----
    fPc,          \* position of the running film action
    fOp,          \* "logFilm"
    req,          \* the LogOptions of the call
    env,          \* field -> what the dialog offers for its control
    saveEnv,      \* what the dialog offers for the save control
    acted,        \* fields on whose control a fill / click / check was issued
    applied,      \* fields whose control was set
    dateFilled,   \* what was typed into the date input: "none" | "today" | "given"
    ratingClick,  \* the rating element clicked: how it was addressed and where
    openerClicks, \* clicks on the control that opens the log dialog
    submitClicks, \* clicks on the save control
    fResult,      \* how the call ended: "void" or an error
    fAt,          \* the statement at which the call ended
    seen,         \* what the call has observed so far: "authenticated",
                  \* "indicator" (film page visible), "control" or "noControl"
                  \* (count of the mandatory control's chain), "dialog"
    \* ---- the rating conversions of film.ts applied to two ratings ----
    ratingFn,     \* "setRatingInDialog" | "rateFilm"
    ratingWidget, \* what the page offers for the rating control
    starCount,    \* number of elements of a positional star widget
    ratingA,      \* first rating, in half-star units (rating * 2)
    ratingB,      \* second rating
    encPc,        \* "idle" | "start" | "done"
    hitA,         \* the element the function clicks for ratingA
    hitB,         \* the element the function clicks for ratingB
    \* ---- toggleWatchlist / likeFilm called repeatedly on one film ----
    add,          \* the `add` argument of the call (likeFilm: TRUE, it only likes)
    siteWatchlist,\* the film is on the account's watchlist
    siteLiked,    \* the film is liked by the account
    observed,     \* isOnWatchlist / isLiked as read by the call: "none", "on", "off"
    callClicks,   \* clicks on the button issued by the running call
    toggleClicks, \* clicks on the button issued since the first call
    toggleCalls,  \* calls started so far
    sameCalls,    \* every call so far had the same function and argument
    \* ---- one listing call: searchFilms, findFilm, getDiary, getWatchlist ----
    lFn,          \* the exported function called
    lPc,          \* position of the call
    nestedPage,   \* every item of the page holds an element that matches the
                  \* second alternative of the item selector
    itemCount,    \* itemCount / rowCount / posterCount: elements the selector matches
    idx,          \* elements inspected so far (the loop variable i)
    results,      \* results / entries / items: document positions of the elements pushed
    bad,          \* document positions of the elements inspected and skipped
    slugged,      \* document positions of the elements whose slug was read
    shown,        \* what the page shows while the listing waits: "none" (not
                  \* waited yet), "list", "empty" (the empty-page text only),
                  \* "neither"
    lResult,      \* how the call ended: "list", "film", "null" or an error
    picked,       \* findFilm's return: position of the element, 0 for null
    \* ---- one call of withRetry(fn, attempts, delayMs) ----
    attempts,     \* the `attempts` argument
    delayMs,      \* the `delayMs` argument
    rI,           \* the loop variable i
    rPc,          \* position of the call
    rLog,         \* invocations of fn and timer waits, in the order they happened
    rResult,      \* how the call ended: the value or the error, and the invocation
                  \* of fn it came from
    \* ---- one invocation of a mutating command: log, rate, watchlist ----
    cmd,          \* "log" | "rate" | "watchlistAdd" | "watchlistRemove"
    cmdPc,        \* position of the command
    exitCode,     \* -1 while running, then the exit code of the process
    linkClicks,   \* rateFilm: clicks on the control that shows the rating widget
    starClicks,   \* rateFilm: clicks on a rating star
    cmdPage,      \* the page the command got from getPage: "none", "open", "closed"
    cmdSession,   \* the browser session the command created: "none", "open", "closed"
    \* ---- config file, keychain and cookie directory (config.ts) ----
    cfgFile,      \* ~/.letterboxd-cli/config.json: its username and password
                  \* fields and who wrote it last
    keychain,     \* account name -> origin of the password stored for it
    cookies,      \* the cookie directory: "absent", "empty" or "session"
    envCreds,     \* LETTERBOXD_USERNAME and LETTERBOXD_PASSWORD are both set
    cfgBrowser,   \* the process has a live browser context
    lastOp,       \* the last operation run and how it ended
    setupFresh,   \* the credentials in place are those the last auth prompt stored
    logoutOf,     \* what the last completed logout started from and how it removed
                  \* the cookies
    mPc,          \* position of a running migratePassword: "idle", "setPassword",
                  \* "saveConfig", "done", "threw", "killed"
    mCfg,         \* the config migratePassword loaded
    mCaller,      \* "none", "authCommand" or "getCredentials"
    \* ---- pure functions of utils.ts ----
    uFn,          \* "none", "parseRating" or "slugify"
    uIn,          \* the input string, a sequence of characters
    uPc,          \* "idle", "in", "once", "twice", "used"
    uA,           \* result of the function on uIn
    uB            \* result of the second function applied to uA

sessVars == <<context, ctxState, closeCalls, launches, pc, op, lctx, ret,
             closeRun, runCloses>>

locVars == <<doc, locPc, clicked>>

authVars == <<aPc, aOp, aResult, aAt, siteAuth, hasCreds, credsOk, pageAt,
             signInLink, lastCheck, sawAuth, navs, logins, submits, prev, aCalls>>

filmVars == <<fPc, fOp, req, env, saveEnv, acted, applied, dateFilled,
             ratingClick, openerClicks, submitClicks, fResult, fAt, seen>>

encVars == <<ratingFn, ratingWidget, starCount, ratingA, ratingB, encPc,
            hitA, hitB>>

togVars == <<add, siteWatchlist, siteLiked, observed, callClicks, toggleClicks,
            toggleCalls, sameCalls>>

listVars == <<lFn, lPc, nestedPage, shown, itemCount, idx, results, bad, slugged, lResult, picked>>

retryVars == <<attempts, delayMs, rI, rPc, rLog, rResult>>

cmdVars == <<cmd, cmdPc, exitCode, linkClicks, starClicks, cmdPage,
            cmdSession>>

cfgVars == <<cfgFile, keychain, cookies, envCreds, cfgBrowser, lastOp, setupFresh,
            logoutOf>>

migVars == <<mPc, mCfg, mCaller>>

\* utils.ts: the function applied (uFn), its input (uIn), the position of
\* the run (uPc), the first result (uA) and the result of the second
\* function applied to it (uB).
utilVars == <<uFn, uIn, uPc, uA, uB>>

ext2Vars == <<cfgVars, migVars, utilVars>>

extVars == <<encVars, togVars, listVars, retryVars, cmdVars, ext2Vars>>

vars == <<sessVars, locVars, authVars, filmVars, extVars>>

nonSessVars == <<locVars, authVars, filmVars, extVars>>
nonLocVars == <<sessVars, authVars, filmVars, extVars>>
nonAuthVars == <<sessVars, locVars, filmVars, extVars>>
nonFilmVars == <<sessVars, locVars, extVars>>
nonEncVars == <<sessVars, locVars, authVars, filmVars, togVars, listVars,
               retryVars, cmdVars, ext2Vars>>
nonTogVars == <<sessVars, locVars, encVars, listVars, retryVars, cmdVars,
               ext2Vars>>
nonListVars == <<sessVars, locVars, filmVars, encVars, togVars, retryVars,
                cmdVars, ext2Vars>>
nonRetryVars == <<sessVars, locVars, authVars, filmVars, encVars, togVars,
                 listVars, cmdVars, ext2Vars>>
nonCmdVars == <<sessVars, locVars, encVars, togVars, listVars, retryVars,
               ext2Vars>>
firstVars == <<sessVars, locVars, authVars, filmVars, encVars, togVars,
              listVars, retryVars, cmdVars>>
nonCfgVars == <<firstVars, utilVars, migVars>>
nonUtilVars == <<firstVars, cfgVars, migVars>>

----------------------------------------------------------------------------
(* Bounds *)

NumCallers == 2
MaxLaunches == 3
MaxCloseCalls == 2
MaxRun == 2

MaxElems == 3
NumStrategies == 3

MaxAuthCalls == 3

Callers == 1..NumCallers
CtxIds == 1..MaxLaunches

NoRet == [kind |-> "none", ctx |-> 0]

----------------------------------------------------------------------------
(* The state of each component before it is used.  The specification of a  *)
(* component starts the other components here and never moves them.        *)

\* client.ts: `let context: BrowserContext | null = null;`, no call pending.
IdleSession ==
    /\ context = 0
    /\ ctxState = [c \in CtxIds |-> "unborn"]
    /\ closeCalls = [c \in CtxIds |-> 0]
    /\ launches = 0
    /\ pc = [p \in Callers |-> "idle"]
    /\ op = [p \in Callers |-> "none"]
    /\ lctx = [p \in Callers |-> 0]
    /\ ret = [p \in Callers |-> NoRet]
    /\ closeRun = 0
    /\ runCloses = 0

IdleLocator ==
    /\ doc = <<>>
    /\ locPc = "idle"
    /\ clicked = 0

NoCheck == [done |-> FALSE, present |-> FALSE, threw |-> FALSE, result |-> FALSE]
NoPrev == [fn |-> "none", sawAuth |-> "none", navs |-> 0, logins |-> 0, result |-> "none"]

\* No auth function running, a blank page, no call made yet.
AuthAtRest ==
    /\ aPc = "idle"
    /\ aOp = "none"
    /\ aResult = "none"
    /\ aAt = "none"
    /\ pageAt = "blank"
    /\ signInLink = FALSE
    /\ lastCheck = NoCheck
    /\ sawAuth = "none"
    /\ navs = 0
    /\ logins = 0
    /\ submits = 0
    /\ prev = NoPrev
    /\ aCalls = 0

IdleAuth ==
    /\ AuthAtRest
    /\ siteAuth = FALSE
    /\ hasCreds = FALSE
    /\ credsOk = FALSE

Fields == {"date", "rating", "liked", "rewatch", "review", "spoilers"}

\* LogOptions: rating in half-star units (0: undefined), the other options
\* as present / absent (liked, rewatch, spoilers: true / not true).
NoReq == [rating |-> 0, liked |-> FALSE, date |-> FALSE, review |-> FALSE,
          rewatch |-> FALSE, spoilers |-> FALSE]
NoClick == [via |-> "none", pos |-> 0]

IdleFilm ==
    /\ fPc = "idle"
    /\ fOp = "none"
    /\ req = NoReq
    /\ env = [f \in Fields |-> "unseen"]
    /\ saveEnv = "unseen"
    /\ acted = {}
    /\ applied = {}
    /\ dateFilled = "none"
    /\ ratingClick = NoClick
    /\ openerClicks = 0
    /\ submitClicks = 0
    /\ fResult = "none"
    /\ fAt = "none"
    /\ seen = {}

IdleEnc ==
    /\ ratingFn = "none"
    /\ ratingWidget = "none"
    /\ starCount = 0
    /\ ratingA = 0
    /\ ratingB = 0
    /\ encPc = "idle"
    /\ hitA = NoClick
    /\ hitB = NoClick

IdleToggle ==
    /\ add = FALSE
    /\ siteWatchlist = FALSE
    /\ siteLiked = FALSE
    /\ observed = "none"
    /\ callClicks = 0
    /\ toggleClicks = 0
    /\ toggleCalls = 0
    /\ sameCalls = TRUE

IdleListing ==
    /\ lFn = "none"
    /\ lPc = "idle"
    /\ nestedPage = FALSE
    /\ itemCount = 0
    /\ idx = 0
    /\ results = <<>>
    /\ bad = {}
    /\ slugged = {}
    /\ shown = "none"
    /\ lResult = "none"
    /\ picked = 0

NoResult == [kind |-> "none", from |-> 0, value |-> "none"]

IdleRetry ==
    /\ attempts = 0
    /\ delayMs = 0
    /\ rI = 0
    /\ rPc = "idle"
    /\ rLog = <<>>
    /\ rResult = NoResult

IdleCmd ==
    /\ cmd = "none"
    /\ cmdPc = "idle"
    /\ exitCode = -1
    /\ linkClicks = 0
    /\ starClicks = 0
    /\ cmdPage = "none"
    /\ cmdSession = "none"

Accounts == {"email", "handle"}

NoFile == [username |-> "none", password |-> FALSE, writer |-> "none"]
NoLogout == [done |-> FALSE, fresh |-> FALSE, closedFirst |-> FALSE]

IdleMigrate ==
    /\ mPc = "idle"
    /\ mCfg = [username |-> "none", password |-> FALSE]
    /\ mCaller = "none"

IdleConfig ==
    /\ IdleMigrate
    /\ cfgFile = NoFile
    /\ keychain = [u \in Accounts |-> "none"]
    /\ cookies = "absent"
    /\ envCreds = FALSE
    /\ cfgBrowser = FALSE
    /\ lastOp = "none"
    /\ setupFresh = FALSE
    /\ logoutOf = NoLogout

IdleUtil ==
    /\ uFn = "none"
    /\ uIn = <<>>
    /\ uPc = "idle"
    /\ uA = <<>>
    /\ uB = <<>>

IdleExt2 == IdleConfig /\ IdleUtil

IdleFirst ==
    /\ IdleSession
    /\ IdleLocator
    /\ IdleAuth
    /\ IdleFilm
    /\ IdleEnc
    /\ IdleToggle
    /\ IdleListing
    /\ IdleRetry
    /\ IdleCmd

IdleExt == IdleEnc /\ IdleToggle /\ IdleListing /\ IdleRetry /\ IdleCmd /\ IdleExt2

----------------------------------------------------------------------------
(* Fallback chains: page.getByRole(..).or(page.locator(..)).or(..),        *)
(* then `if (await chain.count() > 0) await chain.first().click()`.        *)

Strategies == 1..NumStrategies

Min(S) == CHOOSE x \in S : \A y \in S : x <= y

RECURSIVE SeqsUpTo(_, _)
SeqsUpTo(S, n) ==
    IF n = 0 THEN {<<>>}
    ELSE LET shorter == SeqsUpTo(S, n - 1)
         IN shorter \cup {Append(q, e) : q \in {r \in shorter : Len(r) = n - 1}, e \in S}

\* Elements that match strategy s, as positions in document order.
MatchesOf(d, s) == {i \in 1..Len(d) : s \in d[i]}

\* a.or(b): "matches all elements that match one or both of the two locators".
OrMatches(d, chain) == UNION {MatchesOf(d, s) : s \in chain}

\* locator.count()
Count(d, chain) == Cardinality(OrMatches(d, chain))

\* locator.first(): the first matching element in document order.
First(d, chain) == Min(OrMatches(d, chain))

\* The first strategy, in declared order, that has at least one match.
WinningStrategy(d, chain) == Min({s \in chain : MatchesOf(d, s) # {}})

InitLocator ==
    /\ doc \in SeqsUpTo(SUBSET Strategies, MaxElems)
    /\ locPc = "start"
    /\ clicked = 0
    /\ IdleSession
    /\ IdleAuth
    /\ IdleFilm
    /\ IdleExt

\* film.ts 45-46, 294-298: act on chain.first() when chain.count() > 0.
ResolveAndClick ==
    /\ locPc = "start"
    /\ Count(doc, Strategies) > 0
    /\ clicked' = First(doc, Strategies)
    /\ locPc' = "clicked"
    /\ UNCHANGED doc
    /\ UNCHANGED nonLocVars

\* film.ts 56-58, 294-296: no element matches any strategy of the chain.
ResolveFails ==
    /\ locPc = "start"
    /\ Count(doc, Strategies) = 0
    /\ locPc' = "notFound"
    /\ UNCHANGED <<doc, clicked>>
    /\ UNCHANGED nonLocVars

NextLocator == ResolveAndClick \/ ResolveFails

SpecLocator == InitLocator /\ [][NextLocator]_vars

----------------------------------------------------------------------------
(* Session manager: getBrowserContext / getPage / closeBrowser *)

LiveContexts == {c \in CtxIds : ctxState[c] = "live"}

Done(p) ==
    /\ pc' = [pc EXCEPT ![p] = "idle"]
    /\ op' = [op EXCEPT ![p] = "none"]
    /\ lctx' = [lctx EXCEPT ![p] = 0]

RunReset == closeRun' = 0 /\ runCloses' = 0
RunCounts(n) == closeRun' = (IF closeRun < MaxRun THEN closeRun + 1 ELSE closeRun)
                /\ runCloses' = runCloses + n

\* getBrowserContext up to its first suspension: `if (context) return context;`
\* else issue chromium.launchPersistentContext and suspend on it.
\* getPage runs the same code and then goes on to ctx.newPage().
AcquireCall(p, fn) ==
    /\ pc[p] = "idle"
    /\ UNCHANGED nonSessVars
    /\ fn \in {"getBrowserContext", "getPage"}
    /\ RunReset
    /\ IF context # 0
       THEN /\ launches' = launches
            /\ IF fn = "getPage"
               THEN /\ pc' = [pc EXCEPT ![p] = "newPage"]
                    /\ op' = [op EXCEPT ![p] = fn]
                    /\ lctx' = [lctx EXCEPT ![p] = context]
                    /\ ret' = [ret EXCEPT ![p] = NoRet]
               ELSE /\ ret' = [ret EXCEPT ![p] = [kind |-> "context", ctx |-> context]]
                    /\ UNCHANGED <<pc, op, lctx>>
       ELSE /\ launches < MaxLaunches
            /\ launches' = launches + 1
            /\ op' = [op EXCEPT ![p] = fn]
            /\ lctx' = [lctx EXCEPT ![p] = launches + 1]
            /\ pc' = [pc EXCEPT ![p] = "launching"]
            /\ ret' = [ret EXCEPT ![p] = NoRet]
    /\ UNCHANGED <<context, ctxState, closeCalls>>

\* The pending launch resolves: `context = await launchPersistentContext(..)`.
LaunchResolves(p) ==
    /\ pc[p] = "launching"
    /\ UNCHANGED nonSessVars
    /\ ctxState' = [ctxState EXCEPT ![lctx[p]] = "live"]
    /\ context' = lctx[p]
    /\ IF op[p] = "getPage"
       THEN /\ pc' = [pc EXCEPT ![p] = "newPage"]
            /\ UNCHANGED <<ret, op, lctx>>
       ELSE /\ Done(p)
            /\ ret' = [ret EXCEPT ![p] = [kind |-> "context", ctx |-> lctx[p]]]
    /\ UNCHANGED <<closeCalls, launches, closeRun, runCloses>>

\* The pending launch rejects: the assignment to `context` never runs.
LaunchRejects(p) ==
    /\ pc[p] = "launching"
    /\ UNCHANGED nonSessVars
    /\ ctxState' = [ctxState EXCEPT ![lctx[p]] = "closed"]
    /\ Done(p)
    /\ ret' = [ret EXCEPT ![p] = [kind |-> "error", ctx |-> 0]]
    /\ UNCHANGED <<context, closeCalls, launches, closeRun, runCloses>>

\* getPage: `const page = await ctx.newPage(); return page;`
NewPage(p) ==
    /\ pc[p] = "newPage"
    /\ UNCHANGED nonSessVars
    /\ Done(p)
    /\ ret' = [ret EXCEPT ![p] =
                 IF ctxState[lctx[p]] = "live"
                 THEN [kind |-> "page", ctx |-> lctx[p]]
                 ELSE [kind |-> "error", ctx |-> lctx[p]]]
    /\ UNCHANGED <<context, ctxState, closeCalls, launches, closeRun, runCloses>>

\* closeBrowser up to its suspension: `if (context) { await context.close(); ..`
CloseCall(p) ==
    /\ pc[p] = "idle"
    /\ UNCHANGED nonSessVars
    /\ IF context # 0
       THEN /\ closeCalls[context] < MaxCloseCalls
            /\ closeCalls' = [closeCalls EXCEPT ![context] = @ + 1]
            /\ ctxState' = [ctxState EXCEPT ![context] =
                              IF @ = "live" THEN "closing" ELSE @]
            /\ op' = [op EXCEPT ![p] = "closeBrowser"]
            /\ lctx' = [lctx EXCEPT ![p] = context]
            /\ pc' = [pc EXCEPT ![p] = "closing"]
            /\ ret' = [ret EXCEPT ![p] = NoRet]
            /\ closeRun' = closeRun
            /\ runCloses' = runCloses + 1
       ELSE /\ ret' = [ret EXCEPT ![p] = [kind |-> "void", ctx |-> 0]]
            /\ RunCounts(0)
            /\ UNCHANGED <<closeCalls, ctxState, lctx, pc, op>>
    /\ UNCHANGED <<context, launches>>

\* closeBrowser that forgets `context = null` after the close.
CloseResolves_KeepsContext(p) ==
    /\ pc[p] = "closing"
    /\ UNCHANGED nonSessVars
    /\ ctxState' = [ctxState EXCEPT ![lctx[p]] = "closed"]
    /\ Done(p)
    /\ ret' = [ret EXCEPT ![p] = [kind |-> "void", ctx |-> lctx[p]]]
    /\ RunCounts(0)
    /\ UNCHANGED <<context, closeCalls, launches>>

\* context.close() resolves: `context = null;`
CloseResolves(p) ==
    /\ pc[p] = "closing"
    /\ UNCHANGED nonSessVars
    /\ ctxState' = [ctxState EXCEPT ![lctx[p]] = "closed"]
    /\ context' = 0
    /\ Done(p)
    /\ ret' = [ret EXCEPT ![p] = [kind |-> "void", ctx |-> lctx[p]]]
    /\ RunCounts(0)
    /\ UNCHANGED <<closeCalls, launches>>

\* context.close() rejects: closeBrowser throws before `context = null`.
CloseRejects(p) ==
    /\ pc[p] = "closing"
    /\ UNCHANGED nonSessVars
    /\ \E s \in {"live", "closed"} :
          ctxState' = [ctxState EXCEPT ![lctx[p]] = IF @ = "closing" THEN s ELSE @]
    /\ Done(p)
    /\ ret' = [ret EXCEPT ![p] = [kind |-> "error", ctx |-> lctx[p]]]
    /\ RunReset
    /\ UNCHANGED <<context, closeCalls, launches>>

SessionStep(p) ==
    \/ AcquireCall(p, "getBrowserContext")
    \/ AcquireCall(p, "getPage")
    \/ LaunchResolves(p)
    \/ LaunchRejects(p)
    \/ NewPage(p)
    \/ CloseCall(p)
    \/ CloseResolves(p)
    \/ CloseRejects(p)

\* Any interleaving of calls: a caller need not await one call before
\* another caller issues the next.
NextSession == \E p \in Callers : SessionStep(p)

InitSession == IdleSession /\ IdleLocator /\ IdleAuth /\ IdleFilm /\ IdleExt

SpecSession == InitSession /\ [][NextSession]_vars

\* Calls issued one after the other: a call starts only when no call is pending.
NextSessionSeq ==
    \E p \in Callers :
        /\ \A q \in Callers \ {p} : pc[q] = "idle"
        /\ SessionStep(p)

SpecSessionSeq == InitSession /\ [][NextSessionSeq]_vars

----------------------------------------------------------------------------
(* Authentication flow: isAuthenticated / login / ensureAuthenticated /     *)
(* checkAuthStatus                                                          *)

AuthFns == {"ensureAuthenticated", "login", "checkAuthStatus"}

\* Errors that report a failed authentication: 'Login failed. Check your
\* credentials ..' and 'No credentials configured. Run: letterboxd auth'.
AuthFailureErrors == {"LoginFailed", "NoCredentials"}

\* isAuthenticated with a catch block that reports success.
IsAuthenticated_CatchTrue(q) == IF q = "throws" THEN TRUE ELSE q = "null"

\* isAuthenticated(page): q is what page.$('a[href="/sign-in/"]') does:
\* "null", "element", or "throws".
IsAuthenticated(q) == IF q = "throws" THEN FALSE ELSE q = "null"

\* What page.$ yields on the loaded page.
Query(threw) == IF threw THEN "throws" ELSE IF signInLink THEN "element" ELSE "null"

InitAuth ==
    /\ AuthAtRest
    /\ siteAuth \in BOOLEAN
    /\ hasCreds \in BOOLEAN
    /\ credsOk \in BOOLEAN
    /\ IdleSession
    /\ IdleLocator
    /\ IdleFilm
    /\ IdleExt

\* The call ends: returns or throws.
AuthEnds(result, at) ==
    /\ aPc' = "done"
    /\ aResult' = result
    /\ aAt' = at

\* Entry of ensureAuthenticated / checkAuthStatus (both start at the home
\* navigation) and of login (starts at getCredentials).
AuthStarts(fn) ==
    /\ aPc \in {"idle", "done"}
    /\ aCalls < MaxAuthCalls
    /\ aCalls' = aCalls + 1
    /\ aOp' = fn
    /\ aPc' = IF fn = "login" THEN "getCreds" ELSE "gotoHome"
    /\ aResult' = "none"
    /\ aAt' = "none"
    /\ sawAuth' = "none"
    /\ navs' = 0
    /\ logins' = IF fn = "login" THEN 1 ELSE 0
    /\ submits' = 0
    /\ prev' = IF aPc = "done"
               THEN [fn |-> aOp, sawAuth |-> sawAuth, navs |-> navs,
                     logins |-> logins, result |-> aResult]
               ELSE NoPrev
    /\ UNCHANGED <<siteAuth, hasCreds, credsOk, pageAt, signInLink, lastCheck>>

AuthCall(fn) ==
    /\ fn \in AuthFns
    /\ AuthStarts(fn)
    /\ UNCHANGED nonAuthVars

\* A call that checks the page as it was loaded earlier.
GotoHome_Stale ==
    /\ aPc = "gotoHome"
    /\ navs' = navs + 1
    /\ \/ /\ pageAt' = "home"
          /\ signInLink' = signInLink
          /\ aPc' = "check"
          /\ UNCHANGED <<aResult, aAt>>
       \/ /\ AuthEnds("NavigationError", "gotoHome")
          /\ UNCHANGED <<pageAt, signInLink>>
    /\ UNCHANGED <<aOp, siteAuth, hasCreds, credsOk, lastCheck, sawAuth, logins,
                   submits, prev, aCalls>>
    /\ UNCHANGED nonAuthVars

\* auth.ts 63-65, 84-86: navigateTo(page, home); waitForLoadState.
GotoHome ==
    /\ aPc = "gotoHome"
    /\ navs' = navs + 1
    /\ \/ /\ pageAt' = "home"
          /\ signInLink' = ~siteAuth
          /\ aPc' = "check"
          /\ UNCHANGED <<aResult, aAt>>
       \/ /\ AuthEnds("NavigationError", "gotoHome")
          /\ UNCHANGED <<pageAt, signInLink>>
    /\ UNCHANGED <<aOp, siteAuth, hasCreds, credsOk, lastCheck, sawAuth, logins,
                   submits, prev, aCalls>>
    /\ UNCHANGED nonAuthVars

\* ensureAuthenticated that calls login whatever the status check says.
CheckStatus_AlwaysLogin ==
    /\ aPc = "check"
    /\ \E threw \in BOOLEAN :
         LET r == IsAuthenticated(Query(threw)) IN
         /\ lastCheck' = [done |-> TRUE, present |-> signInLink, threw |-> threw,
                          result |-> r]
         /\ sawAuth' = IF r THEN "yes" ELSE "no"
         /\ IF aOp = "checkAuthStatus"
            THEN /\ AuthEnds(IF r THEN "true" ELSE "false", "return")
                 /\ UNCHANGED logins
            ELSE /\ aPc' = "getCreds"
                 /\ logins' = logins + 1
                 /\ UNCHANGED <<aResult, aAt>>
    /\ UNCHANGED <<aOp, siteAuth, hasCreds, credsOk, pageAt, signInLink, navs,
                   submits, prev, aCalls>>
    /\ UNCHANGED nonAuthVars

\* auth.ts 67-71, 88-101: `if (await isAuthenticated(page)) return;` else login.
CheckStatus ==
    /\ aPc = "check"
    /\ \E threw \in BOOLEAN :
         LET r == IsAuthenticated(Query(threw)) IN
         /\ lastCheck' = [done |-> TRUE, present |-> signInLink, threw |-> threw,
                          result |-> r]
         /\ sawAuth' = IF r THEN "yes" ELSE "no"
         /\ IF aOp = "checkAuthStatus"
            THEN /\ AuthEnds(IF r THEN "true" ELSE "false", "return")
                 /\ UNCHANGED logins
            ELSE IF r
                 THEN /\ AuthEnds("void", "return")
                      /\ UNCHANGED logins
                 ELSE /\ aPc' = "getCreds"
                      /\ logins' = logins + 1
                      /\ UNCHANGED <<aResult, aAt>>
    /\ UNCHANGED <<aOp, siteAuth, hasCreds, credsOk, pageAt, signInLink, navs,
                   submits, prev, aCalls>>
    /\ UNCHANGED nonAuthVars

\* auth.ts 27 with getCredentials of index.ts 183-189: throws when the config
\* holds no username or no password.
GetCreds ==
    /\ aPc = "getCreds"
    /\ IF hasCreds
       THEN /\ aPc' = "gotoSignIn"
            /\ UNCHANGED <<aResult, aAt>>
       ELSE AuthEnds("NoCredentials", "getCredentials")
    /\ UNCHANGED <<aOp, siteAuth, hasCreds, credsOk, pageAt, signInLink, lastCheck,
                   sawAuth, navs, logins, submits, prev, aCalls>>
    /\ UNCHANGED nonAuthVars

\* auth.ts 29: navigateTo(page, sign-in).
GotoSignIn ==
    /\ aPc = "gotoSignIn"
    /\ navs' = navs + 1
    /\ \/ /\ pageAt' = "signin"
          /\ signInLink' = ~siteAuth
          /\ aPc' = "form"
          /\ UNCHANGED <<aResult, aAt>>
       \/ /\ AuthEnds("NavigationError", "gotoSignIn")
          /\ UNCHANGED <<pageAt, signInLink>>
    /\ UNCHANGED <<aOp, siteAuth, hasCreds, credsOk, lastCheck, sawAuth, logins,
                   submits, prev, aCalls>>
    /\ UNCHANGED nonAuthVars

\* auth.ts 31-44: wait for the username input, fill both inputs, and check
\* "remember me" inside its own try/catch.
FillForm ==
    /\ aPc = "form"
    /\ \/ /\ aPc' = "submit"
          /\ UNCHANGED <<aResult, aAt>>
       \/ AuthEnds("TimeoutError", "waitForSelector")
       \/ AuthEnds("TimeoutError", "fill")
    /\ UNCHANGED <<aOp, siteAuth, hasCreds, credsOk, pageAt, signInLink, lastCheck,
                   sawAuth, navs, logins, submits, prev, aCalls>>
    /\ UNCHANGED nonAuthVars

\* auth.ts 47: page.click on the submit control.
ClickSubmit ==
    /\ aPc = "submit"
    /\ \/ /\ submits' = submits + 1
          /\ aPc' = "waitUrl"
          /\ UNCHANGED <<aResult, aAt>>
       \/ /\ AuthEnds("TimeoutError", "click")
          /\ UNCHANGED submits
    /\ UNCHANGED <<aOp, siteAuth, hasCreds, credsOk, pageAt, signInLink, lastCheck,
                   sawAuth, navs, logins, prev, aCalls>>
    /\ UNCHANGED nonAuthVars

\* login that fills and submits the form again when the wait times out.
WaitForUrl_Retry ==
    /\ aPc = "waitUrl"
    /\ \/ /\ credsOk
          /\ siteAuth' = TRUE
          /\ pageAt' = "home"
          /\ signInLink' = FALSE
          /\ aPc' = "verify"
          /\ UNCHANGED <<aResult, aAt>>
       \/ /\ ~credsOk
          /\ pageAt' = "other"
          /\ signInLink' = ~siteAuth
          /\ aPc' = "verify"
          /\ UNCHANGED <<aResult, aAt, siteAuth>>
       \/ /\ ~credsOk
          /\ aPc' = "form"
          /\ UNCHANGED <<aResult, aAt, siteAuth, pageAt, signInLink>>
    /\ UNCHANGED <<aOp, hasCreds, credsOk, lastCheck, sawAuth, navs, logins,
                   submits, prev, aCalls>>
    /\ UNCHANGED nonAuthVars

\* auth.ts 51-52: waitForURL(url does not contain '/sign-in/', 15 s), then
\* waitForLoadState.  Accepted credentials sign the session in and leave the
\* sign-in location; rejected ones keep the page there until the wait times
\* out, or lead to another location that still offers the sign-in link.
WaitForUrl ==
    /\ aPc = "waitUrl"
    /\ \/ /\ credsOk
          /\ siteAuth' = TRUE
          /\ pageAt' = "home"
          /\ signInLink' = FALSE
          /\ aPc' = "verify"
          /\ UNCHANGED <<aResult, aAt>>
       \/ /\ ~credsOk
          /\ pageAt' = "other"
          /\ signInLink' = ~siteAuth
          /\ aPc' = "verify"
          /\ UNCHANGED <<aResult, aAt, siteAuth>>
       \/ /\ ~credsOk
          /\ AuthEnds("TimeoutError", "waitForURL")
          /\ UNCHANGED <<siteAuth, pageAt, signInLink>>
    /\ UNCHANGED <<aOp, hasCreds, credsOk, lastCheck, sawAuth, navs, logins,
                   submits, prev, aCalls>>
    /\ UNCHANGED nonAuthVars

\* auth.ts 55 and 71-74: `return await isAuthenticated(page)`; in
\* ensureAuthenticated `if (!success) throw new Error('Login failed. ..')`.
VerifyLogin ==
    /\ aPc = "verify"
    /\ \E threw \in BOOLEAN :
         LET r == IsAuthenticated(Query(threw)) IN
         /\ lastCheck' = [done |-> TRUE, present |-> signInLink, threw |-> threw,
                          result |-> r]
         /\ IF aOp = "login"
            THEN AuthEnds(IF r THEN "true" ELSE "false", "return")
            ELSE IF r THEN AuthEnds("void", "return")
                 ELSE AuthEnds("LoginFailed", "verify")
    /\ UNCHANGED <<aOp, siteAuth, hasCreds, credsOk, pageAt, signInLink, sawAuth,
                   navs, logins, submits, prev, aCalls>>
    /\ UNCHANGED nonAuthVars

\* The site ends the session between two calls (the cookie expires).
SessionExpires ==
    /\ aPc = "done"
    /\ siteAuth
    /\ siteAuth' = FALSE
    /\ UNCHANGED <<aPc, aOp, aResult, aAt, hasCreds, credsOk, pageAt, signInLink,
                   lastCheck, sawAuth, navs, logins, submits, prev, aCalls>>
    /\ UNCHANGED nonAuthVars

AuthStep ==
    \/ GotoHome
    \/ CheckStatus
    \/ GetCreds
    \/ GotoSignIn
    \/ FillForm
    \/ ClickSubmit
    \/ WaitForUrl
    \/ VerifyLogin

NextAuth ==
    \/ \E fn \in AuthFns : AuthCall(fn)
    \/ AuthStep
    \/ SessionExpires

SpecAuth == InitAuth /\ [][NextAuth]_vars

----------------------------------------------------------------------------
(* Film page actions: logFilm                                               *)

ReqRatings == {9}

Requests ==
    [rating : {0} \cup ReqRatings, liked : BOOLEAN, date : BOOLEAN,
     review : BOOLEAN, rewatch : BOOLEAN, spoilers : BOOLEAN]

\* What the open dialog offers for a field: a control that takes the
\* interaction, no control, or a control on which the interaction throws.
ControlEnvs == {"ok", "absent", "throws"}

\* The like control is picked already liked (class contains 'liked') or not.
LikeEnvs == {"ok", "liked", "absent", "throws"}

\* The rating widget: an element with the aria-label, an input with the
\* value, a row of .star elements long enough for the index, a row too
\* short, none of them, or a widget on which the interaction throws.
RatingEnvs == {"aria", "input", "stars", "starsShort", "absent", "throws"}

\* setRatingInDialog: `Math.round(rating * 2)`, rating being r half-stars.
HalfStars(r) == ((r * 2) + 1) \div 2

\* setRatingInDialog: `Math.ceil(rating) - 1`.
StarIndex(r) == ((r + 1) \div 2) - 1

\* setRatingInDialog, film.ts 190-215: the element clicked for rating r on a
\* dialog offering e.  The aria selector carries `${rating}`, the input
\* selector `${rating}` or `${halfStars}` (both r in half-star units), the
\* star widget is addressed by stars.nth(starIndex).
DialogTarget(e, r) ==
    CASE e = "aria" -> [via |-> "value", pos |-> r]
      [] e = "input" -> [via |-> "value", pos |-> HalfStars(r)]
      [] e = "stars" -> [via |-> "index", pos |-> StarIndex(r)]
      [] OTHER -> NoClick

Requested(f) ==
    CASE f = "rating" -> req.rating # 0
      [] f = "liked" -> req.liked
      [] f = "date" -> req.date
      [] f = "review" -> req.review
      [] f = "rewatch" -> req.rewatch
      [] f = "spoilers" -> req.spoilers

\* The control of field f resolves and takes the interaction.
Resolvable(f) == env[f] \in {"ok", "liked", "aria", "input", "stars"}

InitFilm ==
    /\ AuthAtRest
    /\ siteAuth \in BOOLEAN
    /\ hasCreds \in BOOLEAN
    /\ credsOk \in BOOLEAN
    /\ IdleFilm
    /\ IdleSession
    /\ IdleLocator
    /\ IdleExt

FilmEnds(result, at) ==
    /\ fPc' = "done"
    /\ fResult' = result
    /\ fAt' = at

\* film.ts 34-35: entry of logFilm, which first calls ensureAuthenticated.
LogFilmCall(r) ==
    /\ fPc = "idle"
    /\ r \in Requests
    /\ fOp' = "logFilm"
    /\ seen' = {}
    /\ req' = r
    /\ fPc' = "auth"
    /\ AuthStarts("ensureAuthenticated")
    /\ UNCHANGED <<env, saveEnv, acted, applied, dateFilled, ratingClick,
                   openerClicks, submitClicks, fResult, fAt>>
    /\ UNCHANGED nonFilmVars

\* film.ts 35: ensureAuthenticated returned, or threw and logFilm throws too.
AfterAuth ==
    /\ fPc = "auth"
    /\ aPc = "done"
    /\ IF aResult = "void"
       THEN /\ fPc' = "goToFilm"
            /\ seen' = seen \cup {"authenticated"}
            /\ UNCHANGED <<fResult, fAt>>
       ELSE /\ FilmEnds(aResult, "ensureAuthenticated")
            /\ UNCHANGED seen
    /\ UNCHANGED <<fOp, req, env, saveEnv, acted, applied, dateFilled,
                   ratingClick, openerClicks, submitClicks>>
    /\ UNCHANGED <<authVars, nonFilmVars>>

\* A goToFilm that goes on when the wait for the indicator times out.
GoToFilm_NoWait ==
    /\ fPc = "goToFilm"
    /\ navs' = navs + 1
    /\ \/ /\ pageAt' = "film"
          /\ seen' = seen \cup {"indicator"}
          /\ fPc' = CASE fOp = "logFilm" -> "opener"
                       [] fOp = "rateFilm" -> "ratingLink"
                       [] OTHER -> "button"
          /\ UNCHANGED <<fResult, fAt>>
       \/ /\ FilmEnds("NavigationError", "goToFilm")
          /\ UNCHANGED <<pageAt, seen>>
       \/ /\ pageAt' = "film"
          /\ fPc' = CASE fOp = "logFilm" -> "opener"
                       [] fOp = "rateFilm" -> "ratingLink"
                       [] OTHER -> "button"
          /\ UNCHANGED <<fResult, fAt, seen>>
    /\ UNCHANGED <<fOp, req, env, saveEnv, acted, applied, dateFilled,
                   ratingClick, openerClicks, submitClicks>>
    /\ UNCHANGED <<aPc, aOp, aResult, aAt, siteAuth, hasCreds, credsOk, signInLink,
                   lastCheck, sawAuth, logins, submits, prev, aCalls>>
    /\ UNCHANGED nonFilmVars

\* film.ts 23-29: navigate to the film and wait for the page indicator.
GoToFilm ==
    /\ fPc = "goToFilm"
    /\ navs' = navs + 1
    /\ \/ /\ pageAt' = "film"
          /\ seen' = seen \cup {"indicator"}
          /\ fPc' = CASE fOp = "logFilm" -> "opener"
                       [] fOp = "rateFilm" -> "ratingLink"
                       [] OTHER -> "button"
          /\ UNCHANGED <<fResult, fAt>>
       \/ /\ FilmEnds("NavigationError", "goToFilm")
          /\ UNCHANGED <<pageAt, seen>>
       \/ /\ pageAt' = "film"
          /\ FilmEnds("TimeoutError", "goToFilm")
          /\ UNCHANGED seen
    /\ UNCHANGED <<fOp, req, env, saveEnv, acted, applied, dateFilled,
                   ratingClick, openerClicks, submitClicks>>
    /\ UNCHANGED <<aPc, aOp, aResult, aAt, siteAuth, hasCreds, credsOk, signInLink,
                   lastCheck, sawAuth, logins, submits, prev, aCalls>>
    /\ UNCHANGED nonFilmVars

\* film.ts 40-59: click the log button, else the review link, else throw.
OpenDialog ==
    /\ fPc = "opener"
    /\ \E found \in {"logButton", "reviewLink", "none"}, clickOk \in BOOLEAN :
         IF found = "none"
         THEN /\ FilmEnds("ElementNotFound", "opener")
              /\ seen' = seen \cup {"noControl"}
              /\ UNCHANGED openerClicks
         ELSE /\ openerClicks' = openerClicks + 1
              /\ seen' = seen \cup {"control"}
              /\ IF clickOk
                 THEN /\ fPc' = "dialog"
                      /\ UNCHANGED <<fResult, fAt>>
                 ELSE FilmEnds("TimeoutError", "openerClick")
    /\ UNCHANGED <<fOp, req, env, saveEnv, acted, applied, dateFilled,
                   ratingClick, submitClicks>>
    /\ UNCHANGED <<authVars, nonFilmVars>>

\* film.ts 63-71: wait for the dialog to be visible; throw when it then
\* counts zero elements.  The dialog that opened fixes which controls exist;
\* the spoiler checkbox is looked at only inside the review block, so what the
\* dialog offers for it is settled here.
DialogAppears ==
    /\ fPc = "dialog"
    /\ \/ /\ fPc' = "date"
          /\ \E e \in ControlEnvs :
               /\ (~req.spoilers => e = "ok")
               /\ env' = [env EXCEPT !["spoilers"] = e]
          /\ seen' = seen \cup {"dialog"}
          /\ UNCHANGED <<fResult, fAt>>
       \/ /\ FilmEnds("TimeoutError", "dialog")
          /\ UNCHANGED <<env, seen>>
       \/ /\ FilmEnds("ElementNotFound", "dialog")
          /\ UNCHANGED <<env, seen>>
    /\ UNCHANGED <<fOp, req, saveEnv, acted, applied, dateFilled, ratingClick,
                   openerClicks, submitClicks>>
    /\ UNCHANGED <<authVars, nonFilmVars>>

\* film.ts 73-87: `formatDate(options.date || new Date())`, filled into the
\* date input when the chain counts an element; errors are swallowed.
SetDate ==
    /\ fPc = "date"
    /\ \E e \in ControlEnvs :
         /\ env' = [env EXCEPT !["date"] = e]
         /\ acted' = IF e \in {"ok", "throws"} THEN acted \cup {"date"} ELSE acted
         /\ applied' = IF e = "ok" THEN applied \cup {"date"} ELSE applied
         /\ dateFilled' = IF e = "ok"
                          THEN (IF req.date THEN "given" ELSE "today")
                          ELSE dateFilled
    /\ fPc' = "rating"
    /\ UNCHANGED <<fOp, seen, req, saveEnv, ratingClick, openerClicks, submitClicks,
                   fResult, fAt>>
    /\ UNCHANGED <<authVars, nonFilmVars>>

\* film.ts 90-92 and 185-221: setRatingInDialog when a rating is given.
SetRating ==
    /\ fPc = "rating"
    /\ IF req.rating = 0
       THEN UNCHANGED <<env, acted, applied, ratingClick>>
       ELSE \E e \in RatingEnvs :
              /\ env' = [env EXCEPT !["rating"] = e]
              /\ acted' = IF e \in {"aria", "input", "stars", "throws"}
                          THEN acted \cup {"rating"} ELSE acted
              /\ applied' = IF e \in {"aria", "input", "stars"}
                            THEN applied \cup {"rating"} ELSE applied
              /\ ratingClick' = DialogTarget(e, req.rating)
    /\ fPc' = "liked"
    /\ UNCHANGED <<fOp, seen, req, saveEnv, dateFilled, openerClicks, submitClicks,
                   fResult, fAt>>
    /\ UNCHANGED <<authVars, nonFilmVars>>

\* logFilm that clicks the like button whether or not liked was asked for.
SetLiked_Always ==
    /\ fPc = "liked"
    /\ \E e \in LikeEnvs :
         /\ env' = [env EXCEPT !["liked"] = e]
         /\ acted' = IF e \in {"ok", "throws"} THEN acted \cup {"liked"} ELSE acted
         /\ applied' = IF e \in {"ok", "liked"} THEN applied \cup {"liked"} ELSE applied
    /\ fPc' = "rewatch"
    /\ UNCHANGED <<fOp, seen, req, saveEnv, dateFilled, ratingClick, openerClicks,
                   submitClicks, fResult, fAt>>
    /\ UNCHANGED <<authVars, nonFilmVars>>

\* film.ts 95-114: when options.liked, click the like button unless its class
\* already contains 'liked'; errors are swallowed.  Without options.liked the
\* button is not looked at; the dialog shows it liked or not all the same.
SetLiked ==
    /\ fPc = "liked"
    /\ IF ~req.liked
       THEN /\ \E e \in {"ok", "liked"} : env' = [env EXCEPT !["liked"] = e]
            /\ UNCHANGED <<acted, applied>>
       ELSE \E e \in LikeEnvs :
              /\ env' = [env EXCEPT !["liked"] = e]
              /\ acted' = IF e \in {"ok", "throws"} THEN acted \cup {"liked"} ELSE acted
              /\ applied' = IF e \in {"ok", "liked"} THEN applied \cup {"liked"}
                            ELSE applied
    /\ fPc' = "rewatch"
    /\ UNCHANGED <<fOp, seen, req, saveEnv, dateFilled, ratingClick, openerClicks,
                   submitClicks, fResult, fAt>>
    /\ UNCHANGED <<authVars, nonFilmVars>>

\* film.ts 117-131: when options.rewatch, check the rewatch checkbox.
SetRewatch ==
    /\ fPc = "rewatch"
    /\ IF ~req.rewatch
       THEN UNCHANGED <<env, acted, applied>>
       ELSE \E e \in ControlEnvs :
              /\ env' = [env EXCEPT !["rewatch"] = e]
              /\ acted' = IF e \in {"ok", "throws"} THEN acted \cup {"rewatch"} ELSE acted
              /\ applied' = IF e = "ok" THEN applied \cup {"rewatch"} ELSE applied
    /\ fPc' = "review"
    /\ UNCHANGED <<fOp, seen, req, saveEnv, dateFilled, ratingClick, openerClicks,
                   submitClicks, fResult, fAt>>
    /\ UNCHANGED <<authVars, nonFilmVars>>

\* film.ts 134-161: when options.review, one try block fills the review and
\* then, when options.spoilers, checks the spoiler checkbox; an error of the
\* fill leaves the block.
SetReview ==
    /\ fPc = "review"
    /\ IF ~req.review
       THEN UNCHANGED <<env, acted, applied>>
       ELSE \E e \in ControlEnvs :
              LET sp == req.spoilers /\ e # "throws"
                  spActed == sp /\ env["spoilers"] \in {"ok", "throws"}
                  spApplied == sp /\ env["spoilers"] = "ok"
              IN
              /\ env' = [env EXCEPT !["review"] = e]
              /\ acted' = acted
                    \cup (IF e \in {"ok", "throws"} THEN {"review"} ELSE {})
                    \cup (IF spActed THEN {"spoilers"} ELSE {})
              /\ applied' = applied
                    \cup (IF e = "ok" THEN {"review"} ELSE {})
                    \cup (IF spApplied THEN {"spoilers"} ELSE {})
    /\ fPc' = "save"
    /\ UNCHANGED <<fOp, seen, req, saveEnv, dateFilled, ratingClick, openerClicks,
                   submitClicks, fResult, fAt>>
    /\ UNCHANGED <<authVars, nonFilmVars>>

\* logFilm that returns without a word when it finds no save button.
ClickSave_SilentSkip ==
    /\ fPc = "save"
    /\ \E e \in ControlEnvs :
         /\ saveEnv' = e
         /\ CASE e = "ok" ->
                   /\ submitClicks' = submitClicks + 1
                   /\ fPc' = "wait"
                   /\ UNCHANGED <<fResult, fAt>>
              [] e = "throws" ->
                   /\ submitClicks' = submitClicks
                   /\ FilmEnds("TimeoutError", "saveClick")
              [] e = "absent" ->
                   /\ submitClicks' = submitClicks
                   /\ FilmEnds("void", "return")
    /\ UNCHANGED <<fOp, seen, req, env, acted, applied, dateFilled, ratingClick,
                   openerClicks>>
    /\ UNCHANGED <<authVars, nonFilmVars>>

\* film.ts 164-179: click the save button when the chain counts an element,
\* else `throw new Error('Could not find save button')`.
ClickSave ==
    /\ fPc = "save"
    /\ \E e \in ControlEnvs :
         /\ saveEnv' = e
         /\ CASE e = "ok" ->
                   /\ submitClicks' = submitClicks + 1
                   /\ fPc' = "wait"
                   /\ UNCHANGED <<fResult, fAt>>
              [] e = "throws" ->
                   /\ submitClicks' = submitClicks
                   /\ FilmEnds("TimeoutError", "saveClick")
              [] e = "absent" ->
                   /\ submitClicks' = submitClicks
                   /\ FilmEnds("ElementNotFound", "save")
    /\ UNCHANGED <<fOp, seen, req, env, acted, applied, dateFilled, ratingClick,
                   openerClicks>>
    /\ UNCHANGED <<authVars, nonFilmVars>>

\* film.ts 173-176: wait for the dialog to hide; when that wait rejects, the
\* catch handler returns page.waitForLoadState('networkidle', 10 s), whose
\* rejection is the rejection of the awaited promise.
AwaitCompletion ==
    /\ fPc = "wait"
    /\ \/ FilmEnds("void", "return")
       \/ FilmEnds("TimeoutError", "wait")
    /\ UNCHANGED <<fOp, seen, req, env, saveEnv, acted, applied, dateFilled,
                   ratingClick, openerClicks, submitClicks>>
    /\ UNCHANGED <<authVars, nonFilmVars>>

NextFilm ==
    \/ \E r \in Requests : LogFilmCall(r)
    \/ AuthStep
    \/ AfterAuth
    \/ GoToFilm
    \/ OpenDialog
    \/ DialogAppears
    \/ SetDate
    \/ SetRating
    \/ SetLiked
    \/ SetRewatch
    \/ SetReview
    \/ ClickSave
    \/ AwaitCompletion

SpecFilm == InitFilm /\ [][NextFilm]_vars

----------------------------------------------------------------------------
(* toggleWatchlist and likeFilm (film.ts 283-362), called any number of     *)
(* times on the same film.  The button shows the account's state of the     *)
(* film in its class / aria-pressed, and a click that succeeds inverts it.  *)

ToggleFns == {"toggleWatchlist", "likeFilm"}

\* The variables of logFilm, which these functions leave alone.
logVars == <<req, env, saveEnv, acted, applied, dateFilled, ratingClick,
            openerClicks, submitClicks>>

\* The state the call is asked to reach: on the watchlist iff `add`; liked.
Desired(fn, a) == IF fn = "likeFilm" THEN TRUE ELSE a

\* What the button of fn shows.
SiteState(fn) == IF fn = "likeFilm" THEN siteLiked ELSE siteWatchlist

InitToggle ==
    /\ AuthAtRest
    /\ siteAuth \in BOOLEAN
    /\ hasCreds \in BOOLEAN
    /\ credsOk \in BOOLEAN
    /\ IdleFilm
    /\ IdleSession
    /\ IdleLocator
    /\ IdleEnc
    /\ IdleListing
    /\ IdleRetry
    /\ IdleCmd
    /\ IdleExt2
    /\ add = FALSE
    /\ siteWatchlist \in BOOLEAN
    /\ siteLiked \in BOOLEAN
    /\ observed = "none"
    /\ callClicks = 0
    /\ toggleClicks = 0
    /\ toggleCalls = 0
    /\ sameCalls = TRUE

\* film.ts 283-285, 331-333: entry, which first calls ensureAuthenticated.
ToggleCall(fn, a) ==
    /\ fPc \in {"idle", "done"}
    /\ fn \in ToggleFns
    /\ a = Desired(fn, a)
    /\ fOp' = fn
    /\ seen' = {}
    /\ add' = a
    /\ fPc' = "auth"
    /\ fResult' = "none"
    /\ fAt' = "none"
    /\ AuthStarts("ensureAuthenticated")
    /\ observed' = "none"
    /\ callClicks' = 0
    /\ toggleCalls' = toggleCalls + 1
    /\ sameCalls' = (toggleCalls = 0 \/ (sameCalls /\ fn = fOp /\ a = add))
    /\ UNCHANGED <<siteWatchlist, siteLiked, toggleClicks>>
    /\ UNCHANGED <<logVars, nonTogVars>>

\* A call that goes on to read the button when the chain counts none.
FindButton_Proceeds ==
    /\ fPc = "button"
    /\ \/ /\ fPc' = "read"
          /\ seen' = seen \cup {"control"}
          /\ UNCHANGED <<fResult, fAt>>
       \/ /\ fPc' = "read"
          /\ seen' = seen \cup {"noControl"}
          /\ UNCHANGED <<fResult, fAt>>
    /\ UNCHANGED <<fOp, logVars, authVars, togVars, nonTogVars>>

\* film.ts 287-296, 335-344: the button chain; count() = 0 throws.
FindButton ==
    /\ fPc = "button"
    /\ \/ /\ fPc' = "read"
          /\ seen' = seen \cup {"control"}
          /\ UNCHANGED <<fResult, fAt>>
       \/ /\ FilmEnds("ElementNotFound", "button")
          /\ seen' = seen \cup {"noControl"}
    /\ UNCHANGED <<fOp, logVars, authVars, togVars, nonTogVars>>

\* A call that clicks the button whatever state it shows.
ReadState_ClickAnyway ==
    /\ fPc = "read"
    /\ \/ /\ observed' = (IF SiteState(fOp) THEN "on" ELSE "off")
          /\ fPc' = "click"
          /\ UNCHANGED <<fResult, fAt>>
       \/ /\ FilmEnds("TimeoutError", "read")
          /\ UNCHANGED observed
    /\ UNCHANGED <<add, siteWatchlist, siteLiked, callClicks, toggleClicks,
                   toggleCalls, sameCalls>>
    /\ UNCHANGED <<fOp, seen, logVars, authVars, nonTogVars>>

\* film.ts 298-306, 346-351: read class and aria-pressed of the button and
\* go on to the click only if `(add && !isOnWatchlist) || (!add &&
\* isOnWatchlist)`, for likeFilm `!isLiked`; otherwise return.
ReadState ==
    /\ fPc = "read"
    /\ \/ /\ observed' = (IF SiteState(fOp) THEN "on" ELSE "off")
          /\ IF SiteState(fOp) # Desired(fOp, add)
             THEN /\ fPc' = "click"
                  /\ UNCHANGED <<fResult, fAt>>
             ELSE FilmEnds("void", "return")
       \/ /\ FilmEnds("TimeoutError", "read")
          /\ UNCHANGED observed
    /\ UNCHANGED <<add, siteWatchlist, siteLiked, callClicks, toggleClicks,
                   toggleCalls, sameCalls>>
    /\ UNCHANGED <<fOp, seen, logVars, authVars, nonTogVars>>

\* film.ts 307, 352: `await btn.click()`; the click inverts the state, or it
\* throws before acting and the call throws.
ClickButton ==
    /\ fPc = "click"
    /\ \/ /\ fPc' = "confirm"
          /\ callClicks' = callClicks + 1
          /\ toggleClicks' = toggleClicks + 1
          /\ IF fOp = "likeFilm"
             THEN siteLiked' = ~siteLiked /\ UNCHANGED siteWatchlist
             ELSE siteWatchlist' = ~siteWatchlist /\ UNCHANGED siteLiked
          /\ UNCHANGED <<fResult, fAt>>
       \/ /\ FilmEnds("TimeoutError", "click")
          /\ UNCHANGED <<callClicks, toggleClicks, siteWatchlist, siteLiked>>
    /\ UNCHANGED <<add, observed, toggleCalls, sameCalls>>
    /\ UNCHANGED <<fOp, seen, logVars, authVars, nonTogVars>>

\* film.ts 310-322, 355-358: wait for the new state to show; a timeout is
\* caught and logged.
ConfirmWait ==
    /\ fPc = "confirm"
    /\ FilmEnds("void", "return")
    /\ UNCHANGED <<fOp, seen, logVars, authVars, togVars, nonTogVars>>

NextToggle ==
    \/ \E fn \in ToggleFns, a \in BOOLEAN : ToggleCall(fn, a)
    \/ AuthStep
    \/ AfterAuth
    \/ GoToFilm
    \/ FindButton
    \/ ReadState
    \/ ClickButton
    \/ ConfirmWait

SpecToggle == InitToggle /\ [][NextToggle]_vars

----------------------------------------------------------------------------
(* The rating conversions of film.ts, applied to every pair of ratings of   *)
(* the scale 0.5 .. 5.0 on the same widget.                                 *)

\* utils.ts parseRating admits 0.5 .. 5.0 in steps of 0.5: 1 .. 10 half-stars.
RatingUnits == 1..10

\* Numbers of elements a positional star widget may have.
StarCounts == {3, 5, 10}

\* What the page offers setRatingInDialog: labelled stars, valued inputs, a
\* positional star widget, nothing, or elements whose click throws.
DialogWidgets == {"aria", "input", "stars", "absent", "throws"}

\* What the page offers rateFilm's star chain: aria-labelled stars,
\* [data-rating] stars, `.rating .rated-N`, `.star-N`, no star but a
\* `.rating-slider, .rating` element for the evaluate fallback ("absent"),
\* neither a star nor that element ("nothing"), or throwing.
RateWidgets ==
    {"aria", "data", "ratedClass", "starClass", "absent", "nothing", "throws"}

\* film.ts 207-214: the star widget is used `if (starIndex < starCount)`.
DialogEnv(w, n, r) ==
    IF w = "stars"
    THEN (IF StarIndex(r) < n THEN "stars" ELSE "starsShort")
    ELSE w

\* rateFilm: `.star-${Math.ceil(rating)}`.
CeilStars(r) == (r + 1) \div 2

\* rateFilm, film.ts 252-270: the element clicked for rating r, or the event
\* dispatched by the evaluate fallback when the chain counts no element.
RateTarget(w, r) ==
    CASE w = "aria" -> [via |-> "value", pos |-> r]
      [] w = "data" -> [via |-> "value", pos |-> r]
      [] w = "ratedClass" -> [via |-> "class", pos |-> HalfStars(r)]
      [] w = "starClass" -> [via |-> "class", pos |-> CeilStars(r)]
      [] w = "absent" -> [via |-> "event", pos |-> r]
      [] OTHER -> NoClick

InitEnc ==
    /\ ratingFn \in {"setRatingInDialog", "rateFilm"}
    /\ ratingWidget \in (IF ratingFn = "setRatingInDialog"
                         THEN DialogWidgets ELSE RateWidgets)
    /\ starCount \in (IF ratingFn = "setRatingInDialog" /\ ratingWidget = "stars"
                      THEN StarCounts ELSE {0})
    /\ ratingA \in RatingUnits
    /\ ratingB \in RatingUnits
    /\ encPc = "start"
    /\ hitA = NoClick
    /\ hitB = NoClick
    /\ IdleSession
    /\ IdleLocator
    /\ IdleAuth
    /\ IdleFilm
    /\ IdleToggle
    /\ IdleListing
    /\ IdleRetry
    /\ IdleCmd
    /\ IdleExt2

SetRatingInDialog ==
    /\ encPc = "start"
    /\ ratingFn = "setRatingInDialog"
    /\ hitA' = DialogTarget(DialogEnv(ratingWidget, starCount, ratingA), ratingA)
    /\ hitB' = DialogTarget(DialogEnv(ratingWidget, starCount, ratingB), ratingB)
    /\ encPc' = "done"
    /\ UNCHANGED <<ratingFn, ratingWidget, starCount, ratingA, ratingB>>
    /\ UNCHANGED nonEncVars

RateFilmStar ==
    /\ encPc = "start"
    /\ ratingFn = "rateFilm"
    /\ hitA' = RateTarget(ratingWidget, ratingA)
    /\ hitB' = RateTarget(ratingWidget, ratingB)
    /\ encPc' = "done"
    /\ UNCHANGED <<ratingFn, ratingWidget, starCount, ratingA, ratingB>>
    /\ UNCHANGED nonEncVars

NextEnc ==
    \/ SetRatingInDialog
    \/ RateFilmStar

SpecEnc == InitEnc /\ [][NextEnc]_vars

----------------------------------------------------------------------------
(* The listings: searchFilms and findFilm (pages/search.ts), getDiary and   *)
(* getWatchlist (pages/profile.ts).  The page is the sequence of elements   *)
(* the item selector matches, in document order; what an element holds is   *)
(* decided when the loop inspects it.                                       *)

SearchCap == 10
DiaryCap == 20
WatchlistCap == 50

\* At most MaxBad elements of a page are malformed; a page has at most
\* MaxShort elements, or about as many as the cap and up to MaxOver more.
MaxBad == 1
MaxShort == 3
MaxOver == 5

ListFns == {"searchFilms", "findFilm", "getDiary", "getWatchlist"}

Cap(fn) ==
    CASE fn = "getDiary" -> DiaryCap
      [] fn = "getWatchlist" -> WatchlistCap
      [] OTHER -> SearchCap

PageLens(fn) == (0..MaxShort) \cup ((Cap(fn) - 1)..(Cap(fn) + MaxOver))

\* The loop bound without the cap.
Limit_NoCap(fn, n) == n

\* search.ts 37, profile.ts 60 and 164: `i < Math.min(count, cap)`.
Limit(fn, n) == Min({n, Cap(fn)})

\* search.ts 34 matches one selector; profile.ts 57 and 161 match a list of
\* two ('tr.diary-entry-row, .diary-entry', 'li.poster-container,
\* .film-poster'), so an item whose container matches the first and which
\* holds an element matching the second is matched twice, container first.
TwoSelectors(fn) == fn \in {"getDiary", "getWatchlist"}

\* The item of the page the element at document position e belongs to.
ItemOf(e) == IF nestedPage THEN (e + 1) \div 2 ELSE e

InitListing ==
    /\ AuthAtRest
    /\ siteAuth \in BOOLEAN
    /\ hasCreds \in BOOLEAN
    /\ credsOk \in BOOLEAN
    /\ IdleSession
    /\ IdleLocator
    /\ IdleFilm
    /\ IdleEnc
    /\ IdleToggle
    /\ IdleListing
    /\ IdleRetry
    /\ IdleCmd
    /\ IdleExt2

ListEnds(result) ==
    /\ lPc' = "done"
    /\ lResult' = result

\* Entry; profile.ts 148: getWatchlist first calls ensureAuthenticated.
ListingCall(fn) ==
    /\ lPc = "idle"
    /\ fn \in ListFns
    /\ lFn' = fn
    /\ IF fn = "getWatchlist"
       THEN /\ AuthStarts("ensureAuthenticated")
            /\ lPc' = "auth"
       ELSE /\ lPc' = "goto"
            /\ UNCHANGED authVars
    /\ UNCHANGED <<nestedPage, shown, itemCount, idx, results, bad, slugged, lResult, picked>>
    /\ UNCHANGED nonListVars

ListAfterAuth ==
    /\ lPc = "auth"
    /\ aPc = "done"
    /\ IF aResult = "void"
       THEN lPc' = "goto" /\ UNCHANGED lResult
       ELSE ListEnds(aResult)
    /\ UNCHANGED <<lFn, nestedPage, shown, itemCount, idx, results, bad, slugged, picked>>
    /\ UNCHANGED <<authVars, nonListVars>>

\* search.ts 22-23, profile.ts 38-45 and 149: navigateTo(page, url).
ListNavigate ==
    /\ lPc = "goto"
    /\ navs' = navs + 1
    /\ \/ /\ pageAt' = "listing"
          /\ lPc' = "content"
          /\ UNCHANGED lResult
       \/ /\ ListEnds("NavigationError")
          /\ UNCHANGED pageAt
    /\ UNCHANGED <<lFn, nestedPage, shown, itemCount, idx, results, bad, slugged, picked>>
    /\ UNCHANGED <<aPc, aOp, aResult, aAt, siteAuth, hasCreds, credsOk, signInLink,
                   lastCheck, sawAuth, logins, submits, prev, aCalls>>
    /\ UNCHANGED nonListVars

\* A wait that goes on whatever the page shows.
WaitContent_Proceeds ==
    /\ lPc = "content"
    /\ shown' \in {"list", "empty", "neither"}
    /\ lPc' = "count"
    /\ UNCHANGED lResult
    /\ UNCHANGED <<lFn, nestedPage, itemCount, idx, results, bad, slugged, picked>>
    /\ UNCHANGED <<authVars, nonListVars>>

\* search.ts 27-28, profile.ts 49-52 and 153-156: wait 10 s for the list or
\* the empty-page text to be visible; waitFor throws when neither is.
WaitContent ==
    /\ lPc = "content"
    /\ shown' \in {"list", "empty", "neither"}
    /\ IF shown' = "neither"
       THEN ListEnds("TimeoutError")
       ELSE lPc' = "count" /\ UNCHANGED lResult
    /\ UNCHANGED <<lFn, nestedPage, itemCount, idx, results, bad, slugged, picked>>
    /\ UNCHANGED <<authVars, nonListVars>>

\* search.ts 33-35, profile.ts 57-58 and 161-162: `await items.count()`.
CountItems ==
    /\ lPc = "count"
    /\ nestedPage' \in (IF TwoSelectors(lFn) THEN BOOLEAN ELSE {FALSE})
    /\ itemCount' \in (IF shown = "list" THEN PageLens(lFn) ELSE {0})
    /\ nestedPage' => itemCount' % 2 = 0
    /\ lPc' = "loop"
    /\ UNCHANGED <<lFn, shown, idx, results, bad, slugged, lResult, picked>>
    /\ UNCHANGED <<authVars, nonListVars>>

\* What the loop body meets in an element: link, slug and fields are read
\* (a field with no element is left absent); there is no film link or slug;
\* reading the link throws; the slug is read and the reading of a later
\* field throws (a timeout, or a locator without first() that matches two
\* elements).
ItemKinds == {"ok", "noSlug", "throws", "fieldThrows"}

\* A loop in which an element whose reading throws fails the listing.
InspectItem_ThrowFails ==
    /\ lPc = "loop"
    /\ idx < Limit(lFn, itemCount)
    /\ idx' = idx + 1
    /\ \E k \in ItemKinds :
         /\ (k # "ok") => Cardinality(bad) < MaxBad
         /\ results' = IF k = "ok" THEN Append(results, idx + 1) ELSE results
         /\ bad' = IF k = "ok" THEN bad ELSE bad \cup {idx + 1}
         /\ slugged' = IF k \in {"ok", "fieldThrows"} THEN slugged \cup {idx + 1}
                       ELSE slugged
         /\ IF k \in {"throws", "fieldThrows"}
            THEN ListEnds("Error")
            ELSE UNCHANGED <<lPc, lResult>>
    /\ UNCHANGED <<lFn, nestedPage, shown, itemCount, picked>>
    /\ UNCHANGED <<authVars, nonListVars>>

\* search.ts 37-98, profile.ts 60-139 and 164-201: one turn of the loop.  The
\* element is pushed, or skipped by `continue` (no link, no slug) or by the
\* catch of the try block around the body.
InspectItem ==
    /\ lPc = "loop"
    /\ idx < Limit(lFn, itemCount)
    /\ idx' = idx + 1
    /\ \E k \in ItemKinds :
         /\ (k # "ok") => Cardinality(bad) < MaxBad
         /\ results' = IF k = "ok" THEN Append(results, idx + 1) ELSE results
         /\ bad' = IF k = "ok" THEN bad ELSE bad \cup {idx + 1}
         /\ slugged' = IF k \in {"ok", "fieldThrows"} THEN slugged \cup {idx + 1}
                       ELSE slugged
    /\ UNCHANGED <<lFn, lPc, nestedPage, shown, itemCount, lResult, picked>>
    /\ UNCHANGED <<authVars, nonListVars>>

\* search.ts 100, profile.ts 141 and 203: `return results`; inside findFilm
\* the list goes to search.ts 108.
ListReturns ==
    /\ lPc = "loop"
    /\ idx >= Limit(lFn, itemCount)
    /\ IF lFn = "findFilm"
       THEN lPc' = "pick" /\ UNCHANGED lResult
       ELSE ListEnds("list")
    /\ UNCHANGED <<lFn, nestedPage, shown, itemCount, idx, results, bad, slugged, picked>>
    /\ UNCHANGED <<authVars, nonListVars>>

\* A findFilm that returns the last result.
FindFilmReturn_Last ==
    /\ lPc = "pick"
    /\ picked' = IF results = <<>> THEN 0 ELSE results[Len(results)]
    /\ ListEnds(IF results = <<>> THEN "null" ELSE "film")
    /\ UNCHANGED <<lFn, nestedPage, shown, itemCount, idx, results, bad, slugged>>
    /\ UNCHANGED <<authVars, nonListVars>>

\* search.ts 106-109: `return results[0] || null`.
FindFilmReturn ==
    /\ lPc = "pick"
    /\ picked' = IF results = <<>> THEN 0 ELSE results[1]
    /\ ListEnds(IF results = <<>> THEN "null" ELSE "film")
    /\ UNCHANGED <<lFn, nestedPage, shown, itemCount, idx, results, bad, slugged>>
    /\ UNCHANGED <<authVars, nonListVars>>

NextListing ==
    \/ \E fn \in ListFns : ListingCall(fn)
    \/ AuthStep
    \/ ListAfterAuth
    \/ ListNavigate
    \/ WaitContent
    \/ CountItems
    \/ InspectItem
    \/ ListReturns
    \/ FindFilmReturn

SpecListing == InitListing /\ [][NextListing]_vars

----------------------------------------------------------------------------
(* rateFilm (film.ts 226-278) and the mutating commands: logCommand         *)
(* (commands/log.ts), rateCommand (commands/search.ts 75-129) and the       *)
(* watchlist add / remove commands (commands/watchlist.ts).                 *)

\* film.ts 226-228: entry of rateFilm, which first calls ensureAuthenticated.
RateFilmCall(r) ==
    /\ fPc = "idle"
    /\ r \in RatingUnits
    /\ fOp' = "rateFilm"
    /\ seen' = {}
    /\ req' = [NoReq EXCEPT !.rating = r]
    /\ fPc' = "auth"
    /\ AuthStarts("ensureAuthenticated")
    /\ UNCHANGED <<env, saveEnv, acted, applied, dateFilled, ratingClick,
                   openerClicks, submitClicks, fResult, fAt>>
    /\ UNCHANGED nonFilmVars

\* film.ts 236-249: click the rating link when the chain counts an element,
\* then wait for the widget (a timeout of that wait is caught); an error of
\* the click is rethrown by the catch at 275-277.
OpenRatingWidget ==
    /\ fPc = "ratingLink"
    /\ \/ /\ fPc' = "star"
          /\ UNCHANGED <<linkClicks, fResult, fAt>>
       \/ /\ fPc' = "star"
          /\ linkClicks' = linkClicks + 1
          /\ UNCHANGED <<fResult, fAt>>
       \/ /\ FilmEnds("RateFailed", "ratingLink")
          /\ UNCHANGED linkClicks
    /\ UNCHANGED <<fOp, seen, logVars, authVars, nonCmdVars>>
    /\ UNCHANGED <<cmd, cmdPc, exitCode, starClicks, cmdPage, cmdSession>>

\* A rateFilm that clicks the star and then clicks it again.
ClickStar_Again ==
    /\ fPc = "star"
    /\ \E w \in RateWidgets :
         /\ env' = [env EXCEPT !["rating"] = w]
         /\ IF w = "throws"
            THEN /\ FilmEnds("RateFailed", "star")
                 /\ UNCHANGED <<ratingClick, starClicks>>
            ELSE /\ fPc' = "settle"
                 /\ ratingClick' = RateTarget(w, req.rating)
                 /\ starClicks' = IF w \in {"absent", "nothing"} THEN starClicks
                                ELSE starClicks + 2
                 /\ UNCHANGED <<fResult, fAt>>
    /\ UNCHANGED <<fOp, seen, req, saveEnv, acted, applied, dateFilled, openerClicks,
                   submitClicks>>
    /\ UNCHANGED <<authVars, nonCmdVars>>
    /\ UNCHANGED <<cmd, cmdPc, exitCode, linkClicks, cmdPage, cmdSession>>

\* film.ts 251-270: click the first element of the star chain, or, the chain
\* counting none, dispatch 'rating:set' through page.evaluate on the rating
\* element `if (ratingEl)`.
ClickStar ==
    /\ fPc = "star"
    /\ \E w \in RateWidgets :
         /\ env' = [env EXCEPT !["rating"] = w]
         /\ IF w = "throws"
            THEN /\ FilmEnds("RateFailed", "star")
                 /\ UNCHANGED <<ratingClick, starClicks>>
            ELSE /\ fPc' = "settle"
                 /\ ratingClick' = RateTarget(w, req.rating)
                 /\ starClicks' = IF w \in {"absent", "nothing"} THEN starClicks
                                ELSE starClicks + 1
                 /\ UNCHANGED <<fResult, fAt>>
    /\ UNCHANGED <<fOp, seen, req, saveEnv, acted, applied, dateFilled, openerClicks,
                   submitClicks>>
    /\ UNCHANGED <<authVars, nonCmdVars>>
    /\ UNCHANGED <<cmd, cmdPc, exitCode, linkClicks, cmdPage, cmdSession>>

\* film.ts 272-274: `await page.waitForTimeout(300)`, then return.
Settle ==
    /\ fPc = "settle"
    /\ FilmEnds("void", "return")
    /\ UNCHANGED <<fOp, seen, logVars, authVars, nonCmdVars, cmdVars>>

Commands == {"log", "rate", "watchlistAdd", "watchlistRemove"}

InitMutate ==
    /\ AuthAtRest
    /\ siteAuth \in BOOLEAN
    /\ hasCreds \in BOOLEAN
    /\ credsOk \in BOOLEAN
    /\ IdleFilm
    /\ IdleSession
    /\ IdleLocator
    /\ IdleEnc
    /\ IdleListing
    /\ IdleRetry
    /\ IdleCmd
    /\ IdleExt2
    /\ add = FALSE
    /\ siteWatchlist \in BOOLEAN
    /\ siteLiked = FALSE
    /\ observed = "none"
    /\ callClicks = 0
    /\ toggleClicks = 0
    /\ toggleCalls = 0
    /\ sameCalls = TRUE

CommandEnds(code) ==
    /\ cmdPc' = "exit"
    /\ exitCode' = code

\* log.ts 24-27, watchlist.ts 18-21 and 66-69: `if (!(await
\* hasCredentials()))` exits 1.  search.ts 76 tests `!hasCredentials()`
\* without await: with the asynchronous hasCredentials of config.ts the test
\* is never true, with the synchronous one it is the same test.
CommandStart(c) ==
    /\ cmdPc = "idle"
    /\ c \in Commands
    /\ cmd' = c
    /\ \/ /\ hasCreds \/ c = "rate"
          /\ cmdPc' = "find"
          /\ UNCHANGED exitCode
       \/ /\ ~hasCreds
          /\ CommandEnds(1)
    /\ UNCHANGED <<linkClicks, starClicks, cmdPage, cmdSession>>
    /\ UNCHANGED <<authVars, filmVars, nonCmdVars>>

\* log.ts 31-66, search.ts 91-98, watchlist.ts 25-33: getPage, which creates
\* the session and a page, then findFilm and the parsing of the options.  No
\* film found, an invalid rating or an invalid date call process.exit(1)
\* inside the try block; an error goes to the catch block, which calls
\* process.exit(1).  process.exit ends the process at once: the finally
\* block is not run.
CommandFind ==
    /\ cmdPc = "find"
    /\ \/ /\ CommandEnds(1)
          /\ UNCHANGED <<cmdPage, cmdSession>>
       \/ /\ cmdPage' = "open"
          /\ cmdSession' = "open"
          /\ \/ /\ cmdPc' = "call"
                /\ UNCHANGED exitCode
             \/ CommandEnds(1)
    /\ UNCHANGED <<cmd, linkClicks, starClicks>>
    /\ UNCHANGED <<authVars, filmVars, nonCmdVars>>

\* log.ts 73, search.ts 103, watchlist.ts 38 and 86: the one call of the
\* film page action.
CommandCall ==
    /\ cmdPc = "call"
    /\ fPc = "idle"
    /\ CASE cmd = "log" -> \E r \in Requests : LogFilmCall(r)
         [] cmd = "rate" -> \E r \in RatingUnits : RateFilmCall(r)
         [] cmd = "watchlistAdd" -> ToggleCall("toggleWatchlist", TRUE)
         [] cmd = "watchlistRemove" -> ToggleCall("toggleWatchlist", FALSE)

\* log.ts 74-108, search.ts 104-128, watchlist.ts 39-62.  The action
\* returned: `await page.close()`, the success output, then the finally
\* block, whose closeBrowser closes the session, and the process ends with
\* code 0.  The action or page.close() threw: the catch block reports the
\* failure and calls process.exit(1), and the finally block is not run.
CommandReport ==
    /\ cmdPc = "call"
    /\ fPc = "done"
    /\ \/ /\ fResult = "void"
          /\ cmdPage' = "closed"
          /\ cmdSession' = "closed"
          /\ CommandEnds(0)
       \/ /\ CommandEnds(1)
          /\ UNCHANGED <<cmdPage, cmdSession>>
    /\ UNCHANGED <<cmd, linkClicks, starClicks>>
    /\ UNCHANGED <<authVars, filmVars, nonCmdVars>>

NextMutate ==
    \/ \E c \in Commands : CommandStart(c)
    \/ CommandFind
    \/ CommandCall
    \/ AuthStep
    \/ AfterAuth
    \/ GoToFilm
    \/ OpenDialog
    \/ DialogAppears
    \/ SetDate
    \/ SetRating
    \/ SetLiked
    \/ SetRewatch
    \/ SetReview
    \/ ClickSave
    \/ AwaitCompletion
    \/ OpenRatingWidget
    \/ ClickStar
    \/ Settle
    \/ FindButton
    \/ ReadState
    \/ ClickButton
    \/ ConfirmWait
    \/ CommandReport

SpecMutate == InitMutate /\ [][NextMutate]_vars

\* The four mutating actions of film.ts called directly; a run calls logFilm
\* or rateFilm once, or the toggles any number of times.
ActionCall ==
    \/ \E r \in Requests : LogFilmCall(r)
    \/ \E r \in RatingUnits : RateFilmCall(r)
    \/ /\ fOp \in {"none"} \cup ToggleFns
       /\ \E fn \in ToggleFns, a \in BOOLEAN : ToggleCall(fn, a)

NextActions ==
    \/ ActionCall
    \/ AuthStep
    \/ AfterAuth
    \/ GoToFilm
    \/ OpenDialog
    \/ DialogAppears
    \/ SetDate
    \/ SetRating
    \/ SetLiked
    \/ SetRewatch
    \/ SetReview
    \/ ClickSave
    \/ AwaitCompletion
    \/ OpenRatingWidget
    \/ ClickStar
    \/ Settle
    \/ FindButton
    \/ ReadState
    \/ ClickButton
    \/ ConfirmWait

SpecActions == InitToggle /\ [][NextActions]_vars

----------------------------------------------------------------------------
(* withRetry (utils/retry.ts, kept in browser/auth.ts 184-199).             *)

DefaultAttempts == 3
DefaultDelayMs == 1000

MaxAttempts == 5

\* Values fn may resolve with.
Values == {"a", "b"}

Invocation == [ev |-> "invoke", ms |-> 0]
Wait(ms) == [ev |-> "wait", ms |-> ms]

\* Number of invocations of fn so far.
Invocations == Cardinality({k \in 1..Len(rLog) : rLog[k].ev = "invoke"})

InitRetry ==
    /\ IdleRetry
    /\ IdleSession
    /\ IdleLocator
    /\ IdleAuth
    /\ IdleFilm
    /\ IdleEnc
    /\ IdleToggle
    /\ IdleListing
    /\ IdleCmd
    /\ IdleExt2

\* auth.ts 184-189: entry, `attempts = 3, delayMs = 1000` by default, i = 0.
WithRetryCall(n, ms) ==
    /\ rPc = "idle"
    /\ n \in 0..MaxAttempts
    /\ ms \in {0, DefaultDelayMs}
    /\ attempts' = n
    /\ delayMs' = ms
    /\ rI' = 0
    /\ rPc' = "loop"
    /\ UNCHANGED <<rLog, rResult>>
    /\ UNCHANGED nonRetryVars

\* auth.ts 189 and 198: the loop test; past the loop, `throw new
\* Error('unreachable')`.
LoopTest ==
    /\ rPc = "loop"
    /\ IF rI < attempts
       THEN /\ rPc' = "invoke"
            /\ UNCHANGED rResult
       ELSE /\ rPc' = "done"
            /\ rResult' = [kind |-> "error", from |-> 0, value |-> "unreachable"]
    /\ UNCHANGED <<attempts, delayMs, rI, rLog>>
    /\ UNCHANGED nonRetryVars

\* A withRetry that, out of attempts, throws the error of the first invocation.
Invoke_ThrowFirst ==
    /\ rPc = "invoke"
    /\ rLog' = Append(rLog, Invocation)
    /\ \/ \E v \in Values :
            /\ rPc' = "done"
            /\ rResult' = [kind |-> "value", from |-> Invocations + 1, value |-> v]
       \/ IF rI = attempts - 1
          THEN /\ rPc' = "done"
               /\ rResult' = [kind |-> "error", from |-> 1, value |-> "e"]
          ELSE /\ rPc' = "wait"
               /\ UNCHANGED rResult
    /\ UNCHANGED <<attempts, delayMs, rI>>
    /\ UNCHANGED nonRetryVars

\* auth.ts 190-193: `return await fn()`; on an error, `if (i === attempts -
\* 1) throw e`, else go on to the wait.
Invoke ==
    /\ rPc = "invoke"
    /\ rLog' = Append(rLog, Invocation)
    /\ \/ \E v \in Values :
            /\ rPc' = "done"
            /\ rResult' = [kind |-> "value", from |-> Invocations + 1, value |-> v]
       \/ IF rI = attempts - 1
          THEN /\ rPc' = "done"
               /\ rResult' = [kind |-> "error", from |-> Invocations + 1,
                              value |-> "e"]
          ELSE /\ rPc' = "wait"
               /\ UNCHANGED rResult
    /\ UNCHANGED <<attempts, delayMs, rI>>
    /\ UNCHANGED nonRetryVars

\* A withRetry that goes to the next invocation without waiting.
RetryWait_None ==
    /\ rPc = "wait"
    /\ rI' = rI + 1
    /\ rPc' = "loop"
    /\ UNCHANGED <<attempts, delayMs, rLog, rResult>>
    /\ UNCHANGED nonRetryVars

\* auth.ts 195 and 189: `await new Promise(r => setTimeout(r, delayMs))`,
\* then i++.
RetryWait ==
    /\ rPc = "wait"
    /\ rLog' = Append(rLog, Wait(delayMs))
    /\ rI' = rI + 1
    /\ rPc' = "loop"
    /\ UNCHANGED <<attempts, delayMs, rResult>>
    /\ UNCHANGED nonRetryVars

NextRetry ==
    \/ \E n \in 0..MaxAttempts, ms \in {0, DefaultDelayMs} : WithRetryCall(n, ms)
    \/ LoopTest
    \/ Invoke
    \/ RetryWait

SpecRetry == InitRetry /\ [][NextRetry]_vars

----------------------------------------------------------------------------
(* Credentials: config.ts (config file, keychain through keytar), the auth  *)
(* command (commands/auth.ts) and the logout command (kept in config.ts     *)
(* 158-193).  The functions of config.ts are operators on a store: the      *)
(* config file, the keychain and the cookie directory.                      *)

Store == [file |-> cfgFile, kc |-> keychain, ck |-> cookies]

\* A Config object: username (or "none") and whether it has a password field.
Configs == [username : Accounts \cup {"none"}, password : BOOLEAN]

\* config.ts 25-32: ensureConfigDir creates the cookie directory if missing.
EnsureConfigDir(st) ==
    [st EXCEPT !.ck = IF @ = "absent" THEN "empty" ELSE @]

\* config.ts 45-58: loadConfig (which calls ensureConfigDir).
LoadConfig(st) == [username |-> st.file.username, password |-> st.file.password]

\* A saveConfig that writes the object as it is given.
SaveConfig_KeepPassword(st, c) ==
    [EnsureConfigDir(st) EXCEPT
        !.file = [username |-> c.username, password |-> c.password,
                  writer |-> "program"]]

\* config.ts 63-69: saveConfig writes the object without its password field.
SaveConfig(st, c) ==
    [EnsureConfigDir(st) EXCEPT
        !.file = [username |-> c.username, password |-> FALSE,
                  writer |-> "program"]]

\* config.ts 81-83 and 88-90: keytar.setPassword / deletePassword.
SetPassword(st, u, origin) == [st EXCEPT !.kc[u] = origin]
DeletePassword(st, u) == [st EXCEPT !.kc[u] = "none"]

\* config.ts 95-105: migratePassword.
MigratePassword(st) ==
    LET c == LoadConfig(st)
        s1 == EnsureConfigDir(st)
    IN  IF c.username # "none" /\ c.password
        THEN SaveConfig(SetPassword(s1, c.username, "legacy"),
                        [username |-> c.username, password |-> FALSE])
        ELSE s1

\* config.ts 110-124: hasCredentials.
HasCredentials(st) ==
    \/ envCreds
    \/ /\ st.file.username # "none"
       /\ st.kc[st.file.username] # "none"

\* The store after an operation.
Stored(st) ==
    /\ cfgFile' = st.file
    /\ keychain' = st.kc
    /\ cookies' = st.ck

InitConfig ==
    /\ cfgFile \in {NoFile} \cup
                   [username : Accounts \cup {"none"}, password : BOOLEAN,
                    writer : {"legacy"}]
    /\ keychain = [u \in Accounts |-> "none"]
    /\ cookies \in {"absent", "session"}
    /\ envCreds \in BOOLEAN
    /\ cfgBrowser = FALSE
    /\ lastOp = "none"
    /\ setupFresh = FALSE
    /\ logoutOf = NoLogout
    /\ IdleMigrate
    /\ IdleFirst
    /\ IdleUtil

\* saveConfig called with any Config object.
SaveConfigOp(c) ==
    /\ c \in Configs
    /\ Stored(SaveConfig(Store, c))
    /\ lastOp' = "saveConfig"
    /\ setupFresh' = FALSE
    /\ UNCHANGED <<envCreds, cfgBrowser, logoutOf>>
    /\ UNCHANGED nonCfgVars

MigratePasswordOp ==
    /\ Stored(MigratePassword(Store))
    /\ lastOp' = "migratePassword"
    /\ setupFresh' = (setupFresh /\ ~LoadConfig(Store).password)
    /\ UNCHANGED <<envCreds, cfgBrowser, logoutOf>>
    /\ UNCHANGED nonCfgVars

\* config.ts 130-156: getCredentials.
GetCredentialsOp ==
    /\ IF envCreds
       THEN /\ lastOp' = "getCredentials"
            /\ UNCHANGED <<cfgFile, keychain, cookies>>
       ELSE LET c == LoadConfig(Store)
                s1 == IF c.username # "none" /\ c.password
                      THEN MigratePassword(Store)
                      ELSE EnsureConfigDir(Store)
            IN  /\ Stored(s1)
                /\ lastOp' = IF c.username = "none" \/ s1.kc[c.username] = "none"
                             THEN "getCredentials:throws"
                             ELSE "getCredentials"
    /\ setupFresh' = (setupFresh /\ ~LoadConfig(Store).password)
    /\ UNCHANGED <<envCreds, cfgBrowser, logoutOf>>
    /\ UNCHANGED nonCfgVars

\* Some command of the process has obtained a page.
BrowserOpens ==
    /\ ~cfgBrowser
    /\ cfgBrowser' = TRUE
    /\ UNCHANGED <<cfgFile, keychain, cookies, envCreds, lastOp, setupFresh,
                   logoutOf>>
    /\ UNCHANGED nonCfgVars

\* commands/auth.ts 59-144: authCommand.  typed: what the user types at the
\* prompt ("none": an empty answer); scraped: the username checkAuthStatus
\* or login reads from the site ("none": not found); outcome: how the status check
\* goes ("authenticated", "loggedIn", "loginFailed", "error").
AuthCommandOp(typed, scraped, outcome) ==
    /\ typed \in Accounts \cup {"none"}
    /\ scraped \in Accounts \cup {"none"}
    /\ outcome \in {"authenticated", "loggedIn", "loginFailed", "error"}
    /\ LET s1 == MigratePassword(Store)
           prompts == ~HasCredentials(s1)
           s2 == IF prompts /\ typed # "none"
                 THEN SetPassword(
                        SaveConfig(s1, [LoadConfig(s1) EXCEPT !.username = typed]),
                        typed, "auth")
                 ELSE s1
           c2 == LoadConfig(s2)
           s3 == IF outcome \in {"authenticated", "loggedIn"}
                 THEN [s2 EXCEPT !.ck = "session"]
                 ELSE EnsureConfigDir(s2)
           s4 == IF /\ outcome \in {"authenticated", "loggedIn"}
                    /\ scraped # "none"
                    /\ (outcome = "loggedIn" \/ c2.username # scraped)
                 THEN SaveConfig(s3, [c2 EXCEPT !.username = scraped])
                 ELSE s3
       IN  IF prompts /\ typed = "none"
           THEN /\ Stored(s1)
                /\ lastOp' = "auth:exit1"
                /\ setupFresh' = (setupFresh /\ ~LoadConfig(Store).password)
           ELSE /\ Stored(s4)
                /\ lastOp' = IF outcome \in {"authenticated", "loggedIn"}
                             THEN "auth" ELSE "auth:exit1"
                /\ setupFresh' = IF prompts THEN TRUE
                                 ELSE (setupFresh /\ ~LoadConfig(Store).password)
    /\ cfgBrowser' = FALSE
    /\ UNCHANGED <<envCreds, logoutOf>>
    /\ UNCHANGED nonCfgVars

\* config.ts 166-193: logoutCommand.
LogoutCommandOp ==
    /\ LET s1 == EnsureConfigDir(Store)
           c == LoadConfig(s1)
           s2 == DeletePassword(s1, c.username)
           s3 == [s2 EXCEPT !.ck = "absent"]
           s4 == SaveConfig(s3, [c EXCEPT !.username = "none"])
       IN  IF c.username = "none"
           THEN /\ Stored(s1)
                /\ lastOp' = "logout:notLoggedIn"
                /\ UNCHANGED <<cfgBrowser, setupFresh, logoutOf>>
           ELSE /\ Stored(s4)
                /\ cfgBrowser' = FALSE
                /\ lastOp' = "logout"
                /\ logoutOf' = [done |-> TRUE, fresh |-> setupFresh,
                                closedFirst |-> TRUE]
                /\ setupFresh' = FALSE
    /\ UNCHANGED envCreds
    /\ UNCHANGED nonCfgVars

NextConfig ==
    \/ \E c \in Configs : SaveConfigOp(c)
    \/ MigratePasswordOp
    \/ GetCredentialsOp
    \/ BrowserOpens
    \/ \E typed, scraped \in Accounts \cup {"none"},
          outcome \in {"authenticated", "loggedIn", "loginFailed", "error"} :
            AuthCommandOp(typed, scraped, outcome)
    \/ LogoutCommandOp

SpecConfig == InitConfig /\ [][NextConfig]_vars

----------------------------------------------------------------------------
(* migratePassword step by step (config.ts 95-105) under its two callers,   *)
(* authCommand (commands/auth.ts 61) and getCredentials (config.ts 142-145).*)
(* Each await and each file operation is a step; the process can be killed  *)
(* between steps, and a later process starts from the store as it was left. *)

nonMigVars == <<envCreds, cfgBrowser, setupFresh, logoutOf, firstVars, utilVars>>

Migrates == mCfg.username # "none" /\ mCfg.password

\* config.ts 96-97: loadConfig and the test of username and password.
\* getCredentials returns the environment's credentials before it gets
\* here (131-136), throws without a username (139-141) and calls
\* migratePassword only when the file has a password (143-145).
MigrateCall(caller) ==
    /\ mPc = "idle"
    /\ caller \in {"authCommand", "getCredentials"}
    /\ caller = "getCredentials" =>
          ~envCreds /\ cfgFile.username # "none" /\ cfgFile.password
    /\ mCaller' = caller
    /\ mCfg' = LoadConfig(Store)
    /\ Stored(EnsureConfigDir(Store))
    /\ mPc' = IF mCfg'.username # "none" /\ mCfg'.password
              THEN "setPassword" ELSE "done"
    /\ UNCHANGED lastOp
    /\ UNCHANGED nonMigVars

\* A setPassword that resolves without the keychain having stored anything.
MigrateSetPassword_NoStore(ok) ==
    /\ mPc = "setPassword"
    /\ ok \in BOOLEAN
    /\ IF ok
       THEN /\ mPc' = "saveConfig"
            /\ UNCHANGED <<cfgFile, keychain, cookies>>
       ELSE /\ mPc' = "threw"
            /\ UNCHANGED <<cfgFile, keychain, cookies>>
    /\ UNCHANGED <<mCfg, mCaller, lastOp>>
    /\ UNCHANGED nonMigVars

\* config.ts 99 (81-83): await setPassword(config.username, config.password).
\* keytar rejects when the keychain is locked or missing; nothing is stored
\* then and migratePassword rejects.
MigrateSetPassword(ok) ==
    /\ mPc = "setPassword"
    /\ ok \in BOOLEAN
    /\ IF ok
       THEN /\ mPc' = "saveConfig"
            /\ Stored(SetPassword(Store, mCfg.username, "legacy"))
       ELSE /\ mPc' = "threw"
            /\ UNCHANGED <<cfgFile, keychain, cookies>>
    /\ UNCHANGED <<mCfg, mCaller, lastOp>>
    /\ UNCHANGED nonMigVars

\* config.ts 101 (63-69): saveConfig({ username }).  writeFileSync either
\* writes the file ("written"), throws before it has opened it ("throws":
\* the old file stays), or has truncated the file when the write fails or
\* the process dies ("truncated": loadConfig then reads {} at 53-57).
MigrateSaveConfig(how) ==
    /\ mPc = "saveConfig"
    /\ how \in {"written", "throws", "truncated"}
    /\ CASE how = "written" ->
             /\ Stored(SaveConfig(Store, [username |-> mCfg.username,
                                          password |-> FALSE]))
             /\ mPc' = "done"
         [] how = "throws" ->
             /\ Stored(EnsureConfigDir(Store))
             /\ mPc' = "threw"
         [] how = "truncated" ->
             /\ Stored([EnsureConfigDir(Store) EXCEPT
                          !.file = [username |-> "none", password |-> FALSE,
                                    writer |-> "program"]])
             /\ mPc' = "threw"
    /\ UNCHANGED <<mCfg, mCaller, lastOp>>
    /\ UNCHANGED nonMigVars

\* The process is killed while migratePassword waits for the keychain or
\* before it writes the file.
MigrateKilled ==
    /\ mPc \in {"setPassword", "saveConfig"}
    /\ mPc' = "killed"
    /\ UNCHANGED <<cfgFile, keychain, cookies, mCfg, mCaller, lastOp>>
    /\ UNCHANGED nonMigVars

\* migratePassword has returned, rejected or died.  getCredentials then
\* reads the keychain under the username it loaded (config.ts 147-153).
MigrateReturn ==
    /\ mPc \in {"done", "threw", "killed"}
    /\ mPc' = "idle"
    /\ lastOp' = CASE mPc = "killed" -> "killed"
                   [] mPc = "threw" -> mCaller \o ":throws"
                   [] mCaller = "getCredentials" ->
                        IF keychain[mCfg.username] = "none"
                        THEN "getCredentials:throws" ELSE "getCredentials"
                   [] OTHER -> "migratePassword"
    /\ UNCHANGED <<cfgFile, keychain, cookies, mCfg, mCaller>>
    /\ UNCHANGED nonMigVars

NextMigrate ==
    \/ \E caller \in {"authCommand", "getCredentials"} : MigrateCall(caller)
    \/ \E ok \in BOOLEAN : MigrateSetPassword(ok)
    \/ \E how \in {"written", "throws", "truncated"} : MigrateSaveConfig(how)
    \/ MigrateKilled
    \/ MigrateReturn

SpecMigrate == InitConfig /\ [][NextMigrate]_vars

----------------------------------------------------------------------------
(* utils.ts: parseRating, formatRating and slugify.  Strings are sequences  *)
(* of characters; Star is U+2605 and Half is U+00BD.                        *)

MaxInput == 4
MaxStars == 6
MaxTitle == 4

Star == "star"
Half == "half"
Digits == {"0", "1", "2", "3", "4", "5", "6", "7", "8", "9"}

DigitVal(c) ==
    CASE c = "0" -> 0 [] c = "1" -> 1 [] c = "2" -> 2 [] c = "3" -> 3
      [] c = "4" -> 4 [] c = "5" -> 5 [] c = "6" -> 6 [] c = "7" -> 7
      [] c = "8" -> 8 [] c = "9" -> 9

Strings(A, n) == UNION {[1..k -> A] : k \in 0..n}

Max(a, b) == IF a > b THEN a ELSE b

\* Numbers are integers in units of 1/Scale: every decimal numeral of at most
\* MaxInput characters (at most MaxInput - 1 digits after the point) is exact.
Scale == 10 ^ (MaxInput - 1)

\* A rating returned by parseRating, in half-star units (2 * rating), or null.
Null == [null |-> TRUE, units |-> 0]
Num(h) == [null |-> FALSE, units |-> h]

RECURSIVE LeadDigits(_)
LeadDigits(s) ==
    IF s # <<>> /\ Head(s) \in Digits THEN 1 + LeadDigits(Tail(s)) ELSE 0

RECURSIVE IntVal(_)
IntVal(s) ==
    IF s = <<>> THEN 0
    ELSE 10 * IntVal(SubSeq(s, 1, Len(s) - 1)) + DigitVal(s[Len(s)])

\* utils.ts 31: parseFloat reads the longest prefix that is a decimal
\* numeral (digits, then optionally a point and digits) and gives NaN
\* when that prefix has no digit.
ParseFloat(s) ==
    LET i == LeadDigits(s)
        rest == SubSeq(s, i + 1, Len(s))
        f == IF rest # <<>> /\ Head(rest) = "." THEN LeadDigits(Tail(rest)) ELSE 0
    IN  IF i + f = 0
        THEN [nan |-> TRUE, val |-> 0]
        ELSE [nan |-> FALSE,
              val |-> IntVal(SubSeq(s, 1, i)) * Scale
                      + IntVal(SubSeq(rest, 2, f + 1)) * (Scale \div (10 ^ f))]

\* utils.ts 31: input.replace(/[^\d.]/g, '').
StripNonNumeric(s) == SelectSeq(s, LAMBDA c : c \in Digits \cup {"."})

\* A clamp without the upper end.
Clamp_NoMax(v) == Max(Scale \div 2, v)

\* utils.ts 35: Math.min(5, Math.max(0.5, num)).
Clamp(v) == Min({5 * Scale, Max(Scale \div 2, v)})

\* Rounding down to a multiple of 0.5.
RoundHalf_Floor(c) == (2 * c) \div Scale

\* utils.ts 36: Math.round(clamped * 2) / 2, in half-star units.  Math.round
\* is floor(y + 1/2).
RoundHalf(c) == (4 * c + Scale) \div (2 * Scale)

\* A star rating that ignores the half sign.
StarRating_NoHalf(n, half) == Num(Min({10, 2 * n}))

\* utils.ts 27: Math.min(5, starCount + (halfStar ? 0.5 : 0)).
StarRating(n, half) == Num(Min({10, 2 * n + (IF half THEN 1 ELSE 0)}))

\* utils.ts 22-37: parseRating.
ParseRating(input) ==
    LET nStars == Len(SelectSeq(input, LAMBDA c : c = Star))
        halfStar == \E i \in 1..Len(input) : input[i] = Half
        num == ParseFloat(StripNonNumeric(input))
    IN  IF nStars > 0 THEN StarRating(nStars, halfStar)
        ELSE IF num.nan THEN Null
        ELSE Num(RoundHalf(Clamp(num.val)))

Stars(n) == [i \in 1..n |-> Star]

\* utils.ts 42-46: formatRating.  On null, Math.floor(null) is 0 and
\* null % 1 is 0, so the result is the empty string.
FormatRating(r) ==
    IF r.null THEN <<>>
    ELSE Stars(r.units \div 2) \o (IF r.units % 2 # 0 THEN <<Half>> ELSE <<>>)

\* Inputs of parseRating: every string of at most MaxInput characters over
\* digits, the point, a sign and a letter, and the strings of up to MaxStars
\* stars followed by up to two of the half sign and a digit.
RatingInputs ==
    Strings(Digits \cup {".", "-", "s"}, MaxInput)
    \cup {Stars(k) \o t : k \in 0..MaxStars, t \in Strings({Half, "4"}, 2)}

InitRating ==
    /\ uFn = "parseRating"
    /\ uIn \in RatingInputs
    /\ uPc = "in"
    /\ uA = Null
    /\ uB = <<>>
    /\ IdleFirst
    /\ IdleConfig

ParseRatingOp ==
    /\ uFn = "parseRating"
    /\ uPc = "in"
    /\ uA' = ParseRating(uIn)
    /\ uPc' = "once"
    /\ UNCHANGED <<uFn, uIn, uB>>
    /\ UNCHANGED nonUtilVars

FormatRatingOp ==
    /\ uFn = "parseRating"
    /\ uPc = "once"
    /\ uB' = FormatRating(uA)
    /\ uPc' = "twice"
    /\ UNCHANGED <<uFn, uIn, uA>>
    /\ UNCHANGED nonUtilVars

\* log.ts 50-57, search.ts 81-86: the command exits with code 1 when
\* parseRating returned null, and else passes the rating on to logFilm or
\* rateFilm.
UseRatingOp ==
    /\ uFn = "parseRating"
    /\ uPc = "once"
    /\ uB' = IF uA.null THEN <<"exit">> ELSE <<"call">>
    /\ uPc' = "used"
    /\ UNCHANGED <<uFn, uIn, uA>>
    /\ UNCHANGED nonUtilVars

NextRating == ParseRatingOp \/ FormatRatingOp \/ UseRatingOp

SpecRating == InitRating /\ [][NextRating]_vars

\* Characters of a title: an upper-case and a lower-case letter, a digit, a
\* space, a hyphen, an apostrophe and another punctuation character.
TitleChars == {"A", "a", "1", " ", "-", "'", ":"}

\* utils.ts 11: toLowerCase.
ToLowerCase(s) == [i \in 1..Len(s) |-> IF s[i] = "A" THEN "a" ELSE s[i]]

\* utils.ts 12: remove apostrophes.
RemoveApostrophes(s) == SelectSeq(s, LAMBDA c : c # "'")

\* utils.ts 13: remove what is not in [a-z0-9\s-].
RemoveSpecial(s) == SelectSeq(s, LAMBDA c : c \in {"a", "1", " ", "-"})

RECURSIVE DropWhile(_, _)
DropWhile(s, C) ==
    IF s # <<>> /\ Head(s) \in C THEN DropWhile(Tail(s), C) ELSE s

\* Every maximal run of characters of C becomes one hyphen.
RECURSIVE Runs(_, _)
Runs(s, C) ==
    IF s = <<>> THEN <<>>
    ELSE IF Head(s) \in C THEN <<"-">> \o Runs(DropWhile(Tail(s), C), C)
    ELSE <<Head(s)>> \o Runs(Tail(s), C)

\* utils.ts 14: replace(/\s+/g, '-').
SpacesToHyphens(s) == Runs(s, {" "})

\* Hyphen runs kept as they are.
Collapse_Keep(s) == s

\* utils.ts 15: replace(/-+/g, '-').
Collapse(s) == Runs(s, {"-"})

\* utils.ts 16: replace(/^-|-$/g, '') removes one leading and one trailing
\* hyphen.
TrimHyphens(s) ==
    LET a == IF s # <<>> /\ Head(s) = "-" THEN Tail(s) ELSE s
    IN  IF a # <<>> /\ a[Len(a)] = "-" THEN SubSeq(a, 1, Len(a) - 1) ELSE a

\* utils.ts 9-17: slugify.
Slugify(title) ==
    TrimHyphens(Collapse(SpacesToHyphens(RemoveSpecial(RemoveApostrophes(
        ToLowerCase(title))))))

InitSlug ==
    /\ uFn = "slugify"
    /\ uIn \in Strings(TitleChars, MaxTitle)
    /\ uPc = "in"
    /\ uA = <<>>
    /\ uB = <<>>
    /\ IdleFirst
    /\ IdleConfig

SlugifyOp ==
    /\ uFn = "slugify"
    /\ uPc = "in"
    /\ uA' = Slugify(uIn)
    /\ uPc' = "once"
    /\ UNCHANGED <<uFn, uIn, uB>>
    /\ UNCHANGED nonUtilVars

SlugifyAgain ==
    /\ uFn = "slugify"
    /\ uPc = "once"
    /\ uB' = Slugify(uA)
    /\ uPc' = "twice"
    /\ UNCHANGED <<uFn, uIn, uA>>
    /\ UNCHANGED nonUtilVars

NextSlug == SlugifyOp \/ SlugifyAgain

SpecSlug == InitSlug /\ [][NextSlug]_vars

----------------------------------------------------------------------------
(* Claims about the session manager *)

\* C1: at every point of any interleaving of getBrowserContext / getPage /
\* closeBrowser calls, at most one browser context is live in the process.
C1_AtMostOneLiveContext == Cardinality(LiveContexts) <= 1

\* C2: closeBrowser is idempotent.  A call made while `context` is null issues
\* no context.close() and changes nothing of the session state; and after one
\* or more closeBrowser calls made in a row have returned, no session is live
\* and the calls of the run issued at most one context.close() between them.
C2_NoOpWhenNotLive ==
    (context = 0 /\ \E p \in Callers : CloseCall(p))
        => UNCHANGED <<context, ctxState, closeCalls, launches, pc, op, lctx>>

----------------------------------------------------------------------------
(* Claims about the fallback chains *)

\* C3: the element acted on is a match of the first strategy, in declared
\* order, that has at least one match, whatever the document order.
C3_FirstStrategyWins ==
    locPc = "clicked" => WinningStrategy(doc, Strategies) \in doc[clicked]

----------------------------------------------------------------------------
(* Claims about the authentication flow *)

\* Two ensureAuthenticated calls in a row, the status check of each reporting
\* Authenticated; the second has ended.
TwiceAuthenticated ==
    /\ aPc = "done"
    /\ aOp = "ensureAuthenticated"
    /\ sawAuth = "yes"
    /\ prev.fn = "ensureAuthenticated"
    /\ prev.sawAuth = "yes"

\* C4 (as claimed): of two ensureAuthenticated calls in a row on a page whose
\* status check reports Authenticated, only the first performs navigation or
\* login work; login is invoked by neither.
C4_WorkOnFirstCallOnly ==
    TwiceAuthenticated => navs = 0 /\ logins = 0 /\ prev.logins = 0

\* C4 (amended): each of the two calls navigates to the home location once and
\* checks the status there, neither invokes login, and both return normally.
C4_NoLoginOnEitherCall ==
    TwiceAuthenticated =>
        /\ navs = 1 /\ prev.navs = 1
        /\ logins = 0 /\ prev.logins = 0
        /\ submits = 0
        /\ aResult = "void" /\ prev.result = "void"

C4_Witness == TwiceAuthenticated /\ lastCheck.done /\ ~lastCheck.present

\* C5: when ensureAuthenticated finds the page Unauthenticated and the login
\* does not succeed (no credentials, the page stays on the sign-in location
\* until the wait times out, or the sign-in link is still there afterwards),
\* the call throws, and what it throws is the authentication failure.
C5_FailedLoginRaisesAuthFailure ==
    (/\ aPc = "done"
     /\ aOp = "ensureAuthenticated"
     /\ sawAuth = "no"
     /\ aAt \in {"getCredentials", "waitForURL", "verify"})
        => aResult \in AuthFailureErrors

\* C6: one login or ensureAuthenticated call clicks the sign-in submit control
\* at most once, also when the login fails.
C6_SubmitAtMostOnce == submits <= 1

\* A login that failed after its form was submitted.
C6_Witness ==
    /\ aPc = "done"
    /\ submits = 1
    /\ aAt \in {"waitForURL", "verify"}
    /\ aResult \in {"TimeoutError", "LoginFailed", "false"}

\* C7: the status check reports Authenticated exactly when the query for the
\* sign-in link succeeds and finds none; a query that fails reports
\* Unauthenticated.  checkAuthStatus reports what the check found.
C7_StatusFollowsSignInLink ==
    /\ lastCheck.done =>
          (lastCheck.result <=> (~lastCheck.present /\ ~lastCheck.threw))
    /\ (aPc = "done" /\ aOp = "checkAuthStatus" /\ aAt = "return") =>
          /\ aResult \in {"true", "false"}
          /\ (aResult = "true") <=> (~signInLink /\ ~lastCheck.threw)

\* The query failed on a page without the sign-in link: Unauthenticated.
C7_Witness ==
    /\ aPc = "done" /\ aOp = "checkAuthStatus"
    /\ lastCheck.threw /\ ~lastCheck.present
    /\ aResult = "false"

----------------------------------------------------------------------------
(* Claims about logFilm *)

\* The optional fields have been gone through.
FieldsDone ==
    \/ fPc \in {"save", "wait"}
    \/ fPc = "done" /\ fAt \in {"save", "saveClick", "wait", "return"}

\* A field the request asks logFilm to set; the spoiler mark belongs to a
\* review, so it is counted only for a request that carries one.
Wanted(f) == Requested(f) /\ (f = "spoilers" => req.review)

\* C8: whichever optional field controls cannot be resolved or fail, logFilm
\* does not fail: those fields are skipped, every other requested field is
\* applied, and the save control is still clicked.
C8_BestEffortFields ==
    (fPc \in {"wait", "done"} /\ saveEnv = "ok") =>
        /\ submitClicks = 1
        /\ \A f \in Fields : (Wanted(f) /\ Resolvable(f)) => f \in applied
        /\ fPc = "done" => fResult = "void"

\* A LogOptions in which only rating is set.
OnlyRating ==
    /\ fOp = "logFilm"
    /\ req.rating # 0
    /\ ~req.liked /\ ~req.date /\ ~req.review /\ ~req.rewatch /\ ~req.spoilers

C10_SaveMissingInv ==
    (fPc = "done" /\ saveEnv = "absent") =>
        /\ fResult = "ElementNotFound"
        /\ fAt = "save"
        /\ submitClicks = 0

C10_NoRollback ==
    (fPc = "save") => UNCHANGED <<acted, applied, dateFilled, ratingClick, env>>

C10_SaveMissingFails == []C10_SaveMissingInv /\ [][C10_NoRollback]_vars

C10_Witness ==
    /\ fPc = "done" /\ saveEnv = "absent"
    /\ {"date", "rating"} \subseteq applied

\* C11: once the save control has been clicked, a completion wait that sees
\* neither the dialog hide nor the page go idle does not fail logFilm: every
\* call that reached the completion wait returns normally.
C11_CompletionTimeoutNonFatal ==
    (fPc = "done" /\ submitClicks = 1 /\ fAt \in {"wait", "return"}) =>
        fResult = "void"

\* C12: for every rating of the scale, an element addressed by position is
\* the one of round(rating * 2) half-star units, so that two distinct ratings
\* never select the same position, and an element addressed by value is
\* addressed by the rating itself.
C12_HalfStarPositions ==
    (encPc = "done") =>
        /\ (hitA.via = "index") => hitA.pos = HalfStars(ratingA) - 1
        /\ (hitA.via = "class") => hitA.pos = HalfStars(ratingA)
        /\ (hitA.via = "value") => hitA.pos = ratingA
        /\ (ratingA # ratingB /\ hitA.via = hitB.via
               /\ hitA.via \in {"index", "class"}) => hitA.pos # hitB.pos

\* C13: toggleWatchlist(add) and likeFilm click the button exactly when the
\* state they read differs from the state asked for; so, each click inverting
\* the state, any number of repetitions of the same call issue at most one
\* click between them, and a call that returns leaves the film in the state
\* asked for.
C13_ClickIffDiffers ==
    /\ (fPc \in {"click", "confirm"}) =>
          observed = (IF Desired(fOp, add) THEN "off" ELSE "on")
    /\ (fPc = "done" /\ fAt = "return" /\ callClicks = 0) =>
          observed = (IF Desired(fOp, add) THEN "on" ELSE "off")
    /\ (fPc = "done" /\ fAt = "return" /\ callClicks = 1) =>
          observed = (IF Desired(fOp, add) THEN "off" ELSE "on")
    /\ callClicks <= 1

C13_RepeatedCalls ==
    /\ sameCalls => toggleClicks <= 1
    /\ (fPc = "done" /\ fResult = "void") => SiteState(fOp) = Desired(fOp, add)

C13_ToggleIdempotent == C13_ClickIffDiffers /\ C13_RepeatedCalls

C13_Witness ==
    /\ sameCalls /\ toggleCalls = 3
    /\ toggleClicks = 1 /\ callClicks = 0
    /\ fPc = "done" /\ fResult = "void"
    /\ fOp = "toggleWatchlist" /\ ~add

----------------------------------------------------------------------------
(* Claims about the listings *)

Returned == lPc = "done" /\ lResult \in {"list", "film", "null"}

\* C14: every listing is capped: searchFilms returns at most 10 results,
\* getDiary at most 20 entries, getWatchlist at most 50 items; no element
\* past the cap is inspected; and a page of well-formed elements yields
\* min(count, cap) of them (25 diary rows yield 20 entries).
C14_ListingsCapped ==
    /\ Len(results) <= Cap(lFn)
    /\ idx <= Cap(lFn)
    /\ \A e \in bad : e <= Cap(lFn)
    /\ \A k \in 1..Len(results) : results[k] <= Cap(lFn)
    /\ (Returned /\ bad = {}) =>
          Len(results) = (IF itemCount < Cap(lFn) THEN itemCount ELSE Cap(lFn))

C14_Witness ==
    /\ Returned /\ lFn = "getDiary"
    /\ itemCount = 25 /\ bad = {}
    /\ Len(results) = 20

\* C15: an element whose slug cannot be resolved or whose reading throws is
\* skipped and does not fail the listing: the listing returns exactly the
\* other elements within the cap (10 results, the third without identifier,
\* yield 9).
C15_MalformedSkipped ==
    /\ (lPc = "loop" /\ idx >= Limit(lFn, itemCount)) =>
          /\ {results[k] : k \in 1..Len(results)} =
                (1..Limit(lFn, itemCount)) \ bad
          /\ Len(results) = Limit(lFn, itemCount) - Cardinality(bad)
    /\ (lPc = "done" /\ idx > 0) => Returned

C15_Witness ==
    /\ Returned /\ lFn = "searchFilms"
    /\ itemCount = 10 /\ bad = {3}
    /\ Len(results) = 9

\* C16: the result of a listing is a subsequence of the items of the page in
\* document order: no item is out of order and no item appears twice.
C16_DocumentOrder ==
    \A j, k \in 1..Len(results) :
        j < k => ItemOf(results[j]) < ItemOf(results[k])

\* C17: findFilm returns the first element of the list searchFilms returns
\* for the query, and null when that list is empty.
C17_FindFilmFirst ==
    (lFn = "findFilm" /\ lPc = "done" /\ lResult \in {"film", "null"}) =>
        /\ (results = <<>>) => (lResult = "null" /\ picked = 0)
        /\ (results # <<>>) => (lResult = "film" /\ picked = Head(results))

C17_Witness ==
    /\ lFn = "findFilm" /\ lPc = "done"
    /\ lResult = "film" /\ picked = 2 /\ bad = {1}
    /\ Len(results) >= 2

----------------------------------------------------------------------------
(* Claims about withRetry *)

\* C18: for every attempts >= 1, withRetry on an operation that fails every
\* time invokes it exactly `attempts` times and throws the error of the last
\* invocation.
C18_AlwaysFailing ==
    (rPc = "done" /\ attempts >= 1 /\ rResult.kind = "error") =>
        /\ Invocations = attempts
        /\ rResult.from = attempts
        /\ rResult.value = "e"

C18_Witness ==
    /\ rPc = "done" /\ attempts = DefaultAttempts
    /\ rResult.kind = "error" /\ rResult.from = DefaultAttempts
    /\ Invocations = DefaultAttempts

\* The log is invocations separated by single waits of delayMs.
Alternates ==
    \A k \in 1..Len(rLog) :
        rLog[k] = (IF k % 2 = 1 THEN Invocation ELSE Wait(delayMs))

\* C19: withRetry invokes the operation at most `attempts` times; the first
\* success, at invocation k, ends the call with that invocation's value and
\* nothing is invoked after it; exactly one wait of delayMs separates a
\* failed invocation from the next, and no wait follows the last invocation.
C19_RetrySchedule ==
    /\ Invocations <= attempts
    /\ Alternates
    /\ (rPc = "done" /\ rLog # <<>>) => rLog[Len(rLog)] = Invocation
    /\ (rPc = "done" /\ rResult.kind = "value") =>
          /\ rResult.from = Invocations
          /\ rResult.value \in Values
    /\ (rPc \in {"loop", "invoke"}) => Invocations = rI

C19_NothingAfterEnd == (rPc = "done") => UNCHANGED <<rLog, rResult>>

C19_AtMostAttempts == []C19_RetrySchedule /\ [][C19_NothingAfterEnd]_vars

C19_Witness ==
    /\ rPc = "done" /\ attempts = DefaultAttempts /\ delayMs = DefaultDelayMs
    /\ rResult.kind = "value" /\ rResult.from = 2
    /\ rLog = <<Invocation, Wait(DefaultDelayMs), Invocation>>

----------------------------------------------------------------------------
(* Claims about the mutating commands *)

\* C20: in one invocation of a mutating command (log, rate, watchlist add or
\* remove) the submit control of the action (the save button, a rating star,
\* the watchlist button) is clicked at most once, whatever fails; a command
\* that has exited clicks nothing more.
C20_Inv ==
    /\ submitClicks <= 1
    /\ starClicks <= 1
    /\ toggleClicks <= 1
    /\ submitClicks + starClicks + toggleClicks <= 1

C20_ExitIsFinal ==
    (cmdPc = "exit") => UNCHANGED <<submitClicks, starClicks, toggleClicks>>

C20_SubmitClickedOnce == []C20_Inv /\ [][C20_ExitIsFinal]_vars

C20_Witness ==
    /\ cmd = "log" /\ cmdPc = "exit" /\ exitCode = 1
    /\ submitClicks = 1 /\ fAt = "wait"

\* C21: the page a command obtained with getPage is closed when the command
\* ends, whether it succeeded or failed.
C21_PageClosedAtEnd ==
    (cmdPc = "exit" /\ cmdPage # "none") => cmdPage = "closed"

\* C22: a command run that created a browser session has closed it when the
\* process ends, on every path: success, a thrown error, and the early
\* exits for film not found, invalid rating and invalid date.
C22_SessionClosedAtExit ==
    (cmdPc = "exit" /\ cmdSession # "none") => cmdSession = "closed"

----------------------------------------------------------------------------
(* Claims about the stored credentials *)

C24_LogoutClears ==
    (lastOp = "logout" /\ logoutOf.fresh) =>
        /\ \A u \in Accounts : keychain[u] # "auth"
        /\ cfgFile.username = "none"
        /\ cookies # "session"
        /\ logoutOf.closedFirst
        /\ ~envCreds => ~HasCredentials(Store)

----------------------------------------------------------------------------
(* Claims about the functions of utils.ts *)

\* A decimal numeral: digits with at most one point and at least one digit.
Numeral(s) ==
    /\ \A i \in 1..Len(s) : s[i] \in Digits \cup {"."}
    /\ Len(SelectSeq(s, LAMBDA c : c = ".")) <= 1
    /\ \E i \in 1..Len(s) : s[i] \in Digits

Abs(n) == IF n < 0 THEN -n ELSE n

\* C25: for a numeric input x (a decimal numeral: 0, 0.1, 0.2, ...),
\* parseRating returns 0.5 when x is below 0.5,
\* 5 when x is above 5, and otherwise a multiple of 0.5 nearest to x
\* (4.2 gives 4, 4.3 gives 4.5, 4.7 gives 4.5, 4.8 gives 5).
C25_ClampAndRound ==
    (uFn = "parseRating" /\ uPc # "in" /\ Numeral(uIn)) =>
        LET x == ParseFloat(uIn).val
        IN  /\ ~uA.null
            /\ x < Scale \div 2 => uA.units = 1
            /\ x > 5 * Scale => uA.units = 10
            /\ (x >= Scale \div 2 /\ x <= 5 * Scale) =>
                   Abs(2 * uA.units * Scale - 4 * x) <= Scale
            /\ uIn = <<"4", ".", "2">> => uA.units = 8
            /\ uIn = <<"4", ".", "3">> => uA.units = 9
            /\ uIn = <<"4", ".", "7">> => uA.units = 9
            /\ uIn = <<"4", ".", "8">> => uA.units = 10

C25_Witness ==
    /\ uFn = "parseRating"
    /\ uPc = "once"
    /\ uIn = <<"4", ".", "3">>
    /\ uA = Num(9)

\* The strings formatRating produces for the ratings 0.5, 1, ..., 5.
Canonical == {FormatRating(Num(h)) : h \in 1..10}

\* C26 as stated: for every canonical half-star string s,
\* formatRating(parseRating(s)) is s.
C26_RoundTrip ==
    (uFn = "parseRating" /\ uPc = "twice" /\ uIn \in Canonical) => uB = uIn

\* C26: for every canonical half-star string s that has at least one star
\* (the ratings 1 to 5), formatRating(parseRating(s)) is s; for the half
\* sign alone parseRating returns null.
C26_RoundTripWithStar ==
    (uFn = "parseRating" /\ uPc = "twice") =>
        /\ uIn \in {FormatRating(Num(h)) : h \in 2..10} => uB = uIn
        /\ uIn = <<Half>> => uA = Null

C26_Witness ==
    /\ uFn = "parseRating"
    /\ uPc = "twice"
    /\ uIn = <<Star, Star, Star, Half>>
    /\ uB = uIn

\* C27: slugify is idempotent: slugify(slugify(s)) is slugify(s) for every
\* title s over letters, digits, spaces, hyphens, apostrophes and other
\* punctuation.
C27_SlugifyIdempotent ==
    (uFn = "slugify" /\ uPc = "twice") => uB = uA

C27_Witness ==
    /\ uFn = "slugify"
    /\ uPc = "twice"
    /\ uIn = <<"A", " ", "-", "1">>
    /\ uA = <<"a", "-", "1">>
    /\ uB = uA

----------------------------------------------------------------------------
(* Claims about the protocol of the film page actions *)

\* Some control of the film page is clicked by the step.
ClickStep ==
    \/ openerClicks' > openerClicks
    \/ submitClicks' > submitClicks
    \/ linkClicks' > linkClicks
    \/ starClicks' > starClicks
    \/ toggleClicks' > toggleClicks

\* A field of the log dialog is set by the step.
FieldStep ==
    \/ acted' # acted
    \/ applied' # applied
    \/ dateFilled' # dateFilled
    \/ ratingClick' # ratingClick

\* C28: in a run of logFilm, rateFilm, toggleWatchlist or likeFilm no control
\* of the film page is clicked unless ensureAuthenticated has returned and
\* the film page indicator has become visible earlier in the same call; in
\* logFilm no field is set and submit is not clicked unless the dialog has
\* been seen visible after the click on the opener.
C28_ClickAfterPage ==
    ClickStep => {"authenticated", "indicator"} \subseteq seen

C28_FieldAfterDialog ==
    (fOp = "logFilm" /\ (FieldStep \/ submitClicks' > submitClicks)) =>
        ("dialog" \in seen /\ openerClicks >= 1)

C28_ProtocolOrder ==
    [][C28_ClickAfterPage /\ C28_FieldAfterDialog]_vars

C28_Witness ==
    /\ fOp = "logFilm"
    /\ submitClicks = 1
    /\ acted # {}
    /\ seen = {"authenticated", "indicator", "control", "dialog"}

\* C29: when the chain of a mandatory control (the log / review opener, the
\* watchlist button, the like button) counts no element, the action has
\* failed with the element-not-found error, has clicked nothing and takes no
\* later step.
C29_Inv ==
    ("noControl" \in seen) =>
        /\ fPc = "done"
        /\ fResult = "ElementNotFound"
        /\ fAt \in {"opener", "button"}
        /\ "dialog" \notin seen
        /\ fOp = "logFilm" =>
              (openerClicks = 0 /\ submitClicks = 0 /\ acted = {} /\ applied = {})
        /\ fOp \in ToggleFns => (callClicks = 0 /\ observed = "none")

C29_NoLaterStep ==
    ("noControl" \in seen /\ "noControl" \in seen') =>
        UNCHANGED <<filmVars, togVars, linkClicks, starClicks>>

C29_MissingControlFails == []C29_Inv /\ [][C29_NoLaterStep]_vars

C29_Witness ==
    /\ fOp = "likeFilm"
    /\ seen = {"authenticated", "indicator", "noControl"}
    /\ fResult = "ElementNotFound"

\* C30: every optional field of the request is resolved and set on its own:
\* once logFilm has gone through the fields of the dialog, a request with
\* spoilers set has the spoiler checkbox checked whenever the dialog offers
\* one that can be checked, with or without a review and whether or not the
\* review could be filled.
C30_SpoilersIndependent ==
    (fOp = "logFilm" /\ "dialog" \in seen /\ fPc \in {"save", "wait"}) =>
        \A f \in Fields : (Requested(f) /\ Resolvable(f)) => f \in applied

\* C31: in the log dialog the like button is clicked exactly when the
\* requested liked value differs from the state the button shows: no click
\* for liked = true on a film already liked, a click for liked = false on a
\* film that is liked.
C31_LikedClickedIffDiffers ==
    (/\ fOp = "logFilm"
     /\ "dialog" \in seen
     /\ fPc \in {"rewatch", "review", "save", "wait"}
     /\ env["liked"] \in {"ok", "liked"}) =>
        (("liked" \in acted) <=> (req.liked # (env["liked"] = "liked")))

\* C32: an element within the cap whose slug is read is in the result: a
\* failure to read an optional field (title, year, director, date, rating,
\* liked, rewatch) does not drop the element.
C32_SluggedIncluded ==
    Returned => \A p \in slugged : \E i \in 1..Len(results) : results[i] = p

\* C33: a listing fails when neither the list nor the empty-page text
\* becomes visible within the timeout, and returns an empty sequence without
\* error when only the empty-page text is visible.
C33_EmptyOrFatal ==
    /\ shown = "neither" =>
          (lPc = "done" /\ lResult = "TimeoutError" /\ results = <<>>)
    /\ shown = "empty" =>
          /\ lPc \in {"count", "loop", "pick", "done"}
          /\ results = <<>>
          /\ lPc = "done" =>
                lResult = (IF lFn = "findFilm" THEN "null" ELSE "list")

C33_Witness ==
    /\ lFn = "getDiary"
    /\ shown = "empty"
    /\ lPc = "done"
    /\ lResult = "list"
    /\ results = <<>>

----------------------------------------------------------------------------
(* Claims about the authentication decision *)

\* The status check of an ensureAuthenticated call takes place in the step.
DecisionStep ==
    /\ aOp = "ensureAuthenticated"
    /\ sawAuth = "none"
    /\ sawAuth' # "none"

\* C34: the authentication decision is taken from the live page on every
\* call, never from an earlier result.  Every ensureAuthenticated call loads
\* the home location and checks it; it finds Authenticated only if the site
\* holds the session at that moment, and when the site has dropped the
\* session (also after a call that found it) it finds Unauthenticated and
\* calls login; the decision depends on what the check finds on the page,
\* not on the calls made before.
C34_DecisionInv ==
    (aOp = "ensureAuthenticated" /\ sawAuth # "none") =>
        /\ navs >= 1
        /\ lastCheck.done
        /\ (logins = 0) <=> (sawAuth = "yes")
        /\ (logins = 1) <=> (sawAuth = "no")

C34_DecisionLive ==
    DecisionStep =>
        /\ pageAt = "home"
        /\ signInLink = ~siteAuth
        /\ (sawAuth' = "yes") <=> (~signInLink /\ ~lastCheck'.threw)
        /\ sawAuth' = "yes" => siteAuth
        /\ ~siteAuth => (sawAuth' = "no" /\ logins' = logins + 1)

C34_FreshDecision == []C34_DecisionInv /\ [][C34_DecisionLive]_vars

\* The first call found the session, the site dropped it, the second call
\* finds Unauthenticated and logs in.
C34_Witness ==
    /\ aOp = "ensureAuthenticated"
    /\ prev.fn = "ensureAuthenticated"
    /\ prev.sawAuth = "yes"
    /\ prev.result = "void"
    /\ sawAuth = "no"
    /\ logins = 1
    /\ aPc = "getCreds"
    /\ ~lastCheck.threw

\* C35: rateFilm returns normally only if a rating control was resolved and
\* acted on (a star clicked, or the rating event sent to the rating widget):
\* with no star element for the rating and no rating widget on the page it
\* fails.
C35_RateNeedsControl ==
    (fOp = "rateFilm" /\ fPc = "done" /\ fResult = "void") =>
        (env["rating"] # "nothing" /\ ratingClick # NoClick)

\* C36: every rating that reaches rateFilm or logFilm through the rate and
\* log commands is one of 0.5, 1, ..., 5: for every input string parseRating
\* returns null, and the command stops before calling the action, or a value
\* of that set, in the star branch as in the numeric branch.
C36_RatingInScale ==
    (uFn = "parseRating" /\ uPc # "in") =>
        /\ uA = Null \/ (~uA.null /\ uA.units \in RatingUnits)
        /\ uPc = "used" => (uB = <<"call">> <=> ~uA.null)

C36_Witness ==
    /\ uFn = "parseRating"
    /\ uPc = "used"
    /\ uIn = <<"1", "0">>
    /\ uA = Num(10)
    /\ uB = <<"call">>

\* C37: when the auth command has completed successfully for a user who
\* entered credentials at its prompt (the name typed may be an e-mail address
\* and the username read from the site another name), hasCredentials() is
\* true and getCredentials() finds the username and its password, so the
\* credential check of a following command passes.
C37_CredentialsUsableAfterAuth ==
    (lastOp = "auth" /\ setupFresh /\ ~envCreds) =>
        /\ HasCredentials(Store)
        /\ cfgFile.username # "none"
        /\ keychain[cfgFile.username] = "auth"

\* C38: migratePassword never loses the legacy password.  From the moment it
\* has found a username and a password in the config file, at every step
\* (also when setPassword rejects, when the file write fails and when the
\* process is killed in between) the password is in the config file under
\* that username or in the keychain under that username; when it has
\* completed, the password is in the keychain under the username the file
\* holds and the file has no password.
C38_PasswordKept ==
    /\ (mPc # "idle" /\ Migrates) =>
          \/ cfgFile.username = mCfg.username /\ cfgFile.password
          \/ keychain[mCfg.username] = "legacy"
    /\ (mPc = "done" /\ Migrates) =>
          /\ cfgFile.username = mCfg.username
          /\ ~cfgFile.password
          /\ keychain[cfgFile.username] = "legacy"

\* A run killed between the two steps, followed by a run that completes.
C38_Witness ==
    /\ lastOp = "killed"
    /\ mPc = "done"
    /\ mCaller = "getCredentials"
    /\ Migrates
    /\ keychain[mCfg.username] = "legacy"
    /\ ~cfgFile.password

\* C39: getBrowserContext never hands out a session that is closed or being
\* closed.  Whenever an acquisition returns a context to its caller (or
\* getPage takes one to open a page on), whatever closeBrowser calls are
\* pending or have failed, that context is live; and an acquisition that
\* starts when a closeBrowser has completed launches a new session.
C39_AcquireStep ==
    \A p \in Callers :
        /\ (AcquireCall(p, "getBrowserContext") \/ LaunchResolves(p)) =>
              (ret'[p].kind = "context" => ctxState'[ret'[p].ctx] = "live")
        /\ (AcquireCall(p, "getPage") /\ pc'[p] = "newPage") =>
              ctxState'[lctx'[p]] = "live"
        /\ ((AcquireCall(p, "getBrowserContext") \/ AcquireCall(p, "getPage"))
             /\ closeRun >= 1) => pc'[p] = "launching"

C39_NeverHandsOutClosing == [][C39_AcquireStep]_vars

====
